---- MODULE Spec2Model ----
(***************************************************************************)
(* Airbrake flight controller (FC) of the srad-flight-computer firmware:   *)
(* the platform-neutral core (fc_init, fc_step, update_flags, update_fsm   *)
(* in firmware/src/services/fc_core.cpp) and the FC task around it         *)
(* (fc_task, fcGetStatus, fcSoftReset in firmware/src/services/fusion.cpp).*)
(*                                                                         *)
(* Numbers.  Times are milliseconds.  Floats are integers in the unit of   *)
(* the source field (deg, m, m/s, m/s^2, s); NaN is the value NaN below    *)
(* and every comparison is guarded by isnan exactly where the source       *)
(* guards it.  mach is in thousandths, t_since_launch_s in milliseconds.   *)
(***************************************************************************)
EXTENDS Integers, Naturals, Sequences, FiniteSets, TLC

\* ---- bounds of the model ------------------------------------------------
\* the clock stops being advanced once millis() would pass MaxNow
MaxNow == 4600
\* millis() when fc_task starts
BootMs == 100

\* ---- FcState (fc.h) -----------------------------------------------------
FC_SAFE == 0
FC_PREFLIGHT == 1
FC_ARMED_WAIT == 2
FC_BOOST == 3
FC_POST_BURN_HOLD == 4
FC_WINDOW == 5
FC_DEPLOYED == 6
FC_RETRACTING == 7
FC_LOCKED == 8
FC_ABORT_LOCKOUT == 9

\* ---- FcFlags (fc.h); c.flags is the set of the bits that are set --------
FCF_SENS_IMU1_OK == 1
FCF_SENS_BMP1_OK == 2
FCF_SENS_IMU2_OK == 4
FCF_BARO_AGREE == 8
FCF_MACH_OK == 16
FCF_TILT_OK == 32
FCF_TILT_LATCH == 64
FCF_LIFTOFF_DET == 128
FCF_BURNOUT_DET == 256

\* ---- config/fc_config.h defaults -----------------------------------------
FC_SOS_FIXED_MPS == 300
\* FC_MACH_MAX_FOR_DEPLOY 0.50f and FC_MACH_HYST 0.02f, in thousandths
FC_MACH_MAX_FOR_DEPLOY == 500
FC_MACH_HYST == 20
FC_MACH_DWELL_MS == 300
FC_TILT_ABORT_DEG == 30
FC_TILT_ABORT_DWELL_MS == 200
FC_VZ_LIFTOFF_MPS == 8
FC_AZ_LIFTOFF_MPS2 == 15
FC_LIFTOFF_MIN_AGL_M == 5
FC_LIFTOFF_DWELL_MS == 150
FC_BURNOUT_AZ_DONE_MPS2 == 1
FC_BURNOUT_DWELL_MS == 200
FC_BURNOUT_HOLD_MS == 1500
FC_MIN_DEPLOY_AGL_M == 200
FC_TARGET_APOGEE_AGL_M == 3048
FC_APOGEE_HIGH_MARGIN_M == 45
FC_RETRACT_BEFORE_APOGEE_S == 5
\* FC_EXPECTED_TTA_S 18.0f * FC_EXPECTED_TTA_SCALE_TIMEOUT 1.2f, in ms:
\* float(ms) * 0.001f > 18.0f * 1.2f holds exactly for ms > 21600
FC_EXPECTED_TTA_S == 18
FC_EXPECTED_TTA_SCALE_TIMEOUT_X10 == 12
FC_SENSOR_INVALID_MS == 150
FC_SENSOR_RECOVERY_MS == 1500
FC_BARO_AGREE_M == 15
FC_BARO_AGREE_MS == 500
FC_DEPLOY_CMD_DEG == 30

\* ---- floats ---------------------------------------------------------------
NaN == -1000000
isnan(x) == x = NaN
fabsf(x) == IF x < 0 THEN -x ELSE x
Min(a, b) == IF a < b THEN a ELSE b

\* acc += dt on a uint32 accumulator.  The only thing the source does with an
\* accumulator is compare it with one threshold th (acc >= th), so the sums
\* above th are folded onto th
AccAdd(acc, dt, th) == Min(acc + dt, th)

\* cosf(FC_TILT_ABORT_DEG * 0.01745329252f) in thousandths, floored at 0.1
CosTiltAbortMilli == 866
cth == IF CosTiltAbortMilli < 100 THEN 100 ELSE CosTiltAbortMilli

\* mach = (fabsf(vz) / cth) / FC_SOS_FIXED_MPS, in thousandths
MachOf(vz) == (fabsf(vz) * 1000000) \div (cth * FC_SOS_FIXED_MPS)

\* ---- fc_init --------------------------------------------------------------
fc_init ==
  [state |-> FC_PREFLIGHT, flags |-> {}, t_state_ms |-> 0, t_launch_ms |-> 0,
   t_burnout_ms |-> 0, t_deploy_ms |-> 0, tilt_latched |-> 0,
   mach_ok_acc_ms |-> 0, tilt_bad_acc_ms |-> 0, liftoff_acc_ms |-> 0,
   burnout_acc_ms |-> 0,
   imu1_ok |-> 0, bmp1_ok |-> 0, imu2_ok |-> 0,
   imu1_good_acc |-> 0, imu1_bad_acc |-> 0,
   bmp1_good_acc |-> 0, bmp1_bad_acc |-> 0,
   imu2_good_acc |-> 0, imu2_bad_acc |-> 0]

\* memset(&s_ctx, 0, sizeof(s_ctx))
ZeroCtx == [fc_init EXCEPT !.state = FC_SAFE]

\* the function-local statics of update_flags and update_fsm at program start
StaticsInit ==
  [mach_ok_state |-> FALSE, agree_acc |-> 0,
   liftoff_latched |-> FALSE, burnout_latched |-> FALSE]

\* flags |= bit / flags &= ~bit, by a condition
SetIf(flags, bit, cond) == IF cond THEN flags \cup {bit} ELSE flags \ {bit}

\* ---- update_flags ---------------------------------------------------------
\* variant: a valid sample does not clear the bad accumulator
upd_mut(sample_ok, ok, good_acc, bad_acc, dt) ==
  IF sample_ok
  THEN [ok |-> IF ok = 0 /\ AccAdd(good_acc, dt, FC_SENSOR_RECOVERY_MS) >= FC_SENSOR_RECOVERY_MS
               THEN 1 ELSE ok,
        good |-> AccAdd(good_acc, dt, FC_SENSOR_RECOVERY_MS), bad |-> bad_acc]
  ELSE [ok |-> IF ok = 1 /\ AccAdd(bad_acc, dt, FC_SENSOR_INVALID_MS) >= FC_SENSOR_INVALID_MS
               THEN 0 ELSE ok,
        good |-> 0, bad |-> AccAdd(bad_acc, dt, FC_SENSOR_INVALID_MS)]

\* the debounce lambda upd(sample_ok, ok, good_acc, bad_acc, dt)
upd(sample_ok, ok, good_acc, bad_acc, dt) ==
  IF sample_ok
  THEN [ok |-> IF ok = 0 /\ AccAdd(good_acc, dt, FC_SENSOR_RECOVERY_MS) >= FC_SENSOR_RECOVERY_MS
               THEN 1 ELSE ok,
        good |-> AccAdd(good_acc, dt, FC_SENSOR_RECOVERY_MS), bad |-> 0]
  ELSE [ok |-> IF ok = 1 /\ AccAdd(bad_acc, dt, FC_SENSOR_INVALID_MS) >= FC_SENSOR_INVALID_MS
               THEN 0 ELSE ok,
        good |-> 0, bad |-> AccAdd(bad_acc, dt, FC_SENSOR_INVALID_MS)]

\* c.tilt_bad_acc_ms after the tilt block
tilt_acc(c, in) ==
  IF isnan(in.tilt_deg) THEN c.tilt_bad_acc_ms
  ELSE IF in.tilt_deg >= FC_TILT_ABORT_DEG
       THEN AccAdd(c.tilt_bad_acc_ms, in.dt_ms, FC_TILT_ABORT_DWELL_MS)
       ELSE 0

\* variant: the latch follows the current sample instead of staying set
tilt_latch_mut(c, in) ==
  IF /\ ~isnan(in.tilt_deg) /\ in.tilt_deg >= FC_TILT_ABORT_DEG
     /\ tilt_acc(c, in) >= FC_TILT_ABORT_DWELL_MS
  THEN 1 ELSE 0

\* c.tilt_latched after the tilt block: set on dwell, never cleared
tilt_latch(c, in) ==
  IF /\ ~isnan(in.tilt_deg) /\ in.tilt_deg >= FC_TILT_ABORT_DEG
     /\ tilt_acc(c, in) >= FC_TILT_ABORT_DWELL_MS
  THEN 1 ELSE c.tilt_latched

\* float vz = !isnan(in.vz_fused_mps) ? in.vz_fused_mps : in.vz_mps
vz_of(in) == IF ~isnan(in.vz_fused_mps) THEN in.vz_fused_mps ELSE in.vz_mps

\* float mach: NAN unless vz is a number
mach_of(in) == IF isnan(vz_of(in)) THEN NaN ELSE MachOf(vz_of(in))

\* c.mach_ok_acc_ms after the Mach block
mach_acc(c, in) ==
  IF isnan(vz_of(in)) THEN c.mach_ok_acc_ms
  ELSE IF mach_of(in) < FC_MACH_MAX_FOR_DEPLOY
       THEN AccAdd(c.mach_ok_acc_ms, in.dt_ms, FC_MACH_DWELL_MS)
  ELSE IF mach_of(in) > FC_MACH_MAX_FOR_DEPLOY + FC_MACH_HYST THEN 0
  ELSE c.mach_ok_acc_ms

\* static bool mach_ok_state after the Mach block (hysteresis + dwell)
mach_ok(c, s, in) ==
  IF isnan(vz_of(in)) THEN s.mach_ok_state
  ELSE IF mach_of(in) < FC_MACH_MAX_FOR_DEPLOY
       THEN (s.mach_ok_state \/ mach_acc(c, in) >= FC_MACH_DWELL_MS)
  ELSE IF mach_of(in) > FC_MACH_MAX_FOR_DEPLOY + FC_MACH_HYST THEN FALSE
  ELSE s.mach_ok_state

\* c.flags after the Mach block: the bit is written only when vz is a number
mach_flags(c, s, in) ==
  IF isnan(vz_of(in)) THEN c.flags
  ELSE SetIf(c.flags, FCF_MACH_OK, mach_ok(c, s, in))

\* the guard of the baro agreement block
baro_both(in) ==
  /\ in.bmp1_valid /\ in.imu1_valid
  /\ ~isnan(in.bmp1_altitude_m) /\ ~isnan(in.imu1_altitude_m)

baro_diff(in) == fabsf(in.bmp1_altitude_m - in.imu1_altitude_m)

\* variant: a tick without both altitudes restarts the accumulator
agree_acc_next_mut(s, in) ==
  IF ~baro_both(in) THEN 0
  ELSE IF baro_diff(in) <= FC_BARO_AGREE_M
       THEN AccAdd(s.agree_acc, in.dt_ms, FC_BARO_AGREE_MS)
       ELSE 0

\* static uint32_t agree_acc after the baro agreement block
agree_acc_next(s, in) ==
  IF ~baro_both(in) THEN s.agree_acc
  ELSE IF baro_diff(in) <= FC_BARO_AGREE_M
       THEN AccAdd(s.agree_acc, in.dt_ms, FC_BARO_AGREE_MS)
       ELSE 0

\* flags after the baro agreement block
agree_flags(flags, s, in) ==
  IF ~baro_both(in) THEN flags
  ELSE IF baro_diff(in) <= FC_BARO_AGREE_M
       THEN (IF agree_acc_next(s, in) >= FC_BARO_AGREE_MS
             THEN flags \cup {FCF_BARO_AGREE} ELSE flags)
       ELSE flags \ {FCF_BARO_AGREE}

\* variant: FCF_TILT_OK follows the debounced latch alone
inst_flags_mut(flags, imu1_ok, bmp1_ok, imu2_ok, latched, tilt) ==
  SetIf(SetIf(SetIf(SetIf(SetIf(flags,
    FCF_SENS_IMU1_OK, imu1_ok = 1),
    FCF_SENS_BMP1_OK, bmp1_ok = 1),
    FCF_SENS_IMU2_OK, imu2_ok = 1),
    FCF_TILT_OK, latched = 0),
    FCF_TILT_LATCH, latched = 1)

\* the block headed "Instantaneous flags"
inst_flags(flags, imu1_ok, bmp1_ok, imu2_ok, latched, tilt) ==
  SetIf(SetIf(SetIf(SetIf(SetIf(flags,
    FCF_SENS_IMU1_OK, imu1_ok = 1),
    FCF_SENS_BMP1_OK, bmp1_ok = 1),
    FCF_SENS_IMU2_OK, imu2_ok = 1),
    FCF_TILT_OK, latched = 0 /\ ~isnan(tilt) /\ tilt <= FC_TILT_ABORT_DEG),
    FCF_TILT_LATCH, latched = 1)

\* update_flags with its intermediate values named
update_flags_with(c, s, in, u1, ub, u2, latched) ==
  [c |-> [c EXCEPT !.imu1_ok = u1.ok, !.imu1_good_acc = u1.good, !.imu1_bad_acc = u1.bad,
                   !.bmp1_ok = ub.ok, !.bmp1_good_acc = ub.good, !.bmp1_bad_acc = ub.bad,
                   !.imu2_ok = u2.ok, !.imu2_good_acc = u2.good, !.imu2_bad_acc = u2.bad,
                   !.tilt_bad_acc_ms = tilt_acc(c, in), !.tilt_latched = latched,
                   !.mach_ok_acc_ms = mach_acc(c, in),
                   !.flags = inst_flags(agree_flags(mach_flags(c, s, in), s, in),
                                        u1.ok, ub.ok, u2.ok, latched, in.tilt_deg)],
   s |-> [s EXCEPT !.mach_ok_state = mach_ok(c, s, in),
                   !.agree_acc = agree_acc_next(s, in)],
   mach |-> mach_of(in)]

\* result: [c |-> context, s |-> statics, mach |-> out_mach]
update_flags(c, s, in) ==
  update_flags_with(c, s, in,
    upd(in.imu1_valid, c.imu1_ok, c.imu1_good_acc, c.imu1_bad_acc, in.dt_ms),
    upd(in.bmp1_valid, c.bmp1_ok, c.bmp1_good_acc, c.bmp1_bad_acc, in.dt_ms),
    upd(in.imu2_valid, c.imu2_ok, c.imu2_good_acc, c.imu2_bad_acc, in.dt_ms),
    tilt_latch(c, in))

\* ---- update_fsm -----------------------------------------------------------
\* (FC_EXPECTED_TTA_S * FC_EXPECTED_TTA_SCALE_TIMEOUT) seconds, in ms
TtaTimeoutMs == FC_EXPECTED_TTA_S * FC_EXPECTED_TTA_SCALE_TIMEOUT_X10 * 100

liftoff_cond(in) ==
  \/ ~isnan(in.vz_fused_mps) /\ in.vz_fused_mps > FC_VZ_LIFTOFF_MPS
  \/ ~isnan(in.az_imu1_mps2) /\ in.az_imu1_mps2 > FC_AZ_LIFTOFF_MPS2
  \/ ~isnan(in.agl_fused_m) /\ in.agl_fused_m >= FC_LIFTOFF_MIN_AGL_M

\* the liftoff block: the one-shot latches on this tick
liftoff_now(c, s, in) ==
  /\ ~s.liftoff_latched /\ liftoff_cond(in)
  /\ AccAdd(c.liftoff_acc_ms, in.dt_ms, FC_LIFTOFF_DWELL_MS) >= FC_LIFTOFF_DWELL_MS

\* variant: a tick without the liftoff condition keeps the accumulator
liftoff_step_mut(c, s, in) ==
  IF s.liftoff_latched THEN [c |-> c, s |-> s]
  ELSE IF ~liftoff_cond(in) THEN [c |-> c, s |-> s]
  ELSE IF liftoff_now(c, s, in)
       THEN [c |-> [c EXCEPT !.liftoff_acc_ms = AccAdd(@, in.dt_ms, FC_LIFTOFF_DWELL_MS),
                             !.t_launch_ms = in.now_ms,
                             !.flags = @ \cup {FCF_LIFTOFF_DET}],
             s |-> [s EXCEPT !.liftoff_latched = TRUE]]
       ELSE [c |-> [c EXCEPT !.liftoff_acc_ms = AccAdd(@, in.dt_ms, FC_LIFTOFF_DWELL_MS)],
             s |-> s]

\* [c, s] after the liftoff block
liftoff_step(c, s, in) ==
  IF s.liftoff_latched THEN [c |-> c, s |-> s]
  ELSE IF ~liftoff_cond(in) THEN [c |-> [c EXCEPT !.liftoff_acc_ms = 0], s |-> s]
  ELSE IF liftoff_now(c, s, in)
       THEN [c |-> [c EXCEPT !.liftoff_acc_ms = AccAdd(@, in.dt_ms, FC_LIFTOFF_DWELL_MS),
                             !.t_launch_ms = in.now_ms,
                             !.flags = @ \cup {FCF_LIFTOFF_DET}],
             s |-> [s EXCEPT !.liftoff_latched = TRUE]]
       ELSE [c |-> [c EXCEPT !.liftoff_acc_ms = AccAdd(@, in.dt_ms, FC_LIFTOFF_DWELL_MS)],
             s |-> s]

burnout_cond(in) ==
  ~isnan(in.az_imu1_mps2) /\ in.az_imu1_mps2 <= FC_BURNOUT_AZ_DONE_MPS2

\* variant: burnout latches without setting FCF_BURNOUT_DET
burnout_step_mut(c, s, in) ==
  IF ~(s.liftoff_latched /\ ~s.burnout_latched) THEN [c |-> c, s |-> s]
  ELSE IF ~burnout_cond(in) THEN [c |-> [c EXCEPT !.burnout_acc_ms = 0], s |-> s]
  ELSE IF AccAdd(c.burnout_acc_ms, in.dt_ms, FC_BURNOUT_DWELL_MS) >= FC_BURNOUT_DWELL_MS
       THEN [c |-> [c EXCEPT !.burnout_acc_ms = AccAdd(@, in.dt_ms, FC_BURNOUT_DWELL_MS),
                             !.t_burnout_ms = in.now_ms],
             s |-> [s EXCEPT !.burnout_latched = TRUE]]
       ELSE [c |-> [c EXCEPT !.burnout_acc_ms = AccAdd(@, in.dt_ms, FC_BURNOUT_DWELL_MS)],
             s |-> s]

\* [c, s] after the burnout block
burnout_step(c, s, in) ==
  IF ~(s.liftoff_latched /\ ~s.burnout_latched) THEN [c |-> c, s |-> s]
  ELSE IF ~burnout_cond(in) THEN [c |-> [c EXCEPT !.burnout_acc_ms = 0], s |-> s]
  ELSE IF AccAdd(c.burnout_acc_ms, in.dt_ms, FC_BURNOUT_DWELL_MS) >= FC_BURNOUT_DWELL_MS
       THEN [c |-> [c EXCEPT !.burnout_acc_ms = AccAdd(@, in.dt_ms, FC_BURNOUT_DWELL_MS),
                             !.t_burnout_ms = in.now_ms,
                             !.flags = @ \cup {FCF_BURNOUT_DET}],
             s |-> [s EXCEPT !.burnout_latched = TRUE]]
       ELSE [c |-> [c EXCEPT !.burnout_acc_ms = AccAdd(@, in.dt_ms, FC_BURNOUT_DWELL_MS)],
             s |-> s]

\* variant: the barometer's debounced OK bit is left out of the gates
deploy_gates_mut(flags) ==
  {FCF_SENS_IMU1_OK, FCF_TILT_OK, FCF_MACH_OK} \subseteq flags

\* bool gates of case FC_WINDOW
deploy_gates(flags) ==
  {FCF_SENS_IMU1_OK, FCF_SENS_BMP1_OK, FCF_TILT_OK, FCF_MACH_OK} \subseteq flags

\* variant: the predicted-apogee test is left out
deploy_cond_mut(c, in) ==
  /\ ~isnan(in.agl_fused_m) /\ in.agl_fused_m >= FC_MIN_DEPLOY_AGL_M
  /\ deploy_gates(c.flags)

\* the nested ifs of case FC_WINDOW
deploy_cond(c, in) ==
  /\ ~isnan(in.agl_fused_m) /\ in.agl_fused_m >= FC_MIN_DEPLOY_AGL_M
  /\ ~isnan(in.apogee_agl_m)
  /\ in.apogee_agl_m >= FC_TARGET_APOGEE_AGL_M + FC_APOGEE_HIGH_MARGIN_M
  /\ deploy_gates(c.flags)

\* variant: the expected-TTA timeout is left out
retract_cond_mut(c, in) ==
  ~isnan(in.t_apogee_s) /\ in.t_apogee_s <= FC_RETRACT_BEFORE_APOGEE_S

\* the if / else if of case FC_DEPLOYED
retract_cond(c, in) ==
  \/ ~isnan(in.t_apogee_s) /\ in.t_apogee_s <= FC_RETRACT_BEFORE_APOGEE_S
  \/ c.t_launch_ms > 0 /\ in.now_ms - c.t_launch_ms > TtaTimeoutMs

\* c.state = to; c.t_state_ms = in.now_ms
Enter(c, in, to) == [c EXCEPT !.state = to, !.t_state_ms = in.now_ms]

\* variant: liftoff leads to the reserved state ARMED_WAIT
case_PREFLIGHT_mut(c, s, in) ==
  IF c.tilt_latched = 1 THEN Enter(c, in, FC_ABORT_LOCKOUT)
  ELSE IF s.liftoff_latched THEN Enter(c, in, FC_ARMED_WAIT) ELSE c

case_PREFLIGHT(c, s, in) ==
  IF c.tilt_latched = 1 THEN Enter(c, in, FC_ABORT_LOCKOUT)
  ELSE IF s.liftoff_latched THEN Enter(c, in, FC_BOOST) ELSE c

\* variant: BOOST does not look at the tilt latch
case_BOOST_mut(c, s, in) ==
  IF s.burnout_latched THEN Enter(c, in, FC_POST_BURN_HOLD) ELSE c

case_BOOST(c, s, in) ==
  IF c.tilt_latched = 1 THEN Enter(c, in, FC_ABORT_LOCKOUT)
  ELSE IF s.burnout_latched THEN Enter(c, in, FC_POST_BURN_HOLD) ELSE c

\* variant: the hold is measured from 0 instead of from the entry time
case_POST_BURN_HOLD_mut(c, s, in) ==
  IF c.tilt_latched = 1 THEN Enter(c, in, FC_ABORT_LOCKOUT)
  ELSE IF in.now_ms >= FC_BURNOUT_HOLD_MS
       THEN Enter(c, in, FC_WINDOW) ELSE c

case_POST_BURN_HOLD(c, s, in) ==
  IF c.tilt_latched = 1 THEN Enter(c, in, FC_ABORT_LOCKOUT)
  ELSE IF in.now_ms - c.t_state_ms >= FC_BURNOUT_HOLD_MS
       THEN Enter(c, in, FC_WINDOW) ELSE c

case_WINDOW(c, s, in) ==
  IF c.tilt_latched = 1 THEN Enter(c, in, FC_ABORT_LOCKOUT)
  ELSE IF deploy_cond(c, in)
       THEN [Enter(c, in, FC_DEPLOYED) EXCEPT !.t_deploy_ms = in.now_ms]
       ELSE c

case_DEPLOYED(c, s, in) ==
  IF c.tilt_latched = 1 THEN Enter(c, in, FC_ABORT_LOCKOUT)
  ELSE IF retract_cond(c, in) THEN Enter(c, in, FC_RETRACTING) ELSE c

\* variant: after retracting the window is opened again
case_RETRACTING_mut(c, s, in) == Enter(c, in, FC_WINDOW)

case_RETRACTING(c, s, in) == Enter(c, in, FC_LOCKED)

\* variant: LOCKED still reacts to the tilt latch
case_LOCKED_mut(c, s, in) ==
  IF c.tilt_latched = 1 THEN Enter(c, in, FC_ABORT_LOCKOUT) ELSE c

case_LOCKED(c, s, in) == c

case_ABORT_LOCKOUT(c, s, in) == c

\* default:
case_default(c, s, in) == Enter(c, in, FC_SAFE)

\* the switch (c.state) of update_fsm
fsm_switch(c, s, in) ==
  CASE c.state = FC_PREFLIGHT -> case_PREFLIGHT(c, s, in)
    [] c.state = FC_BOOST -> case_BOOST(c, s, in)
    [] c.state = FC_POST_BURN_HOLD -> case_POST_BURN_HOLD(c, s, in)
    [] c.state = FC_WINDOW -> case_WINDOW(c, s, in)
    [] c.state = FC_DEPLOYED -> case_DEPLOYED(c, s, in)
    [] c.state = FC_RETRACTING -> case_RETRACTING(c, s, in)
    [] c.state = FC_LOCKED -> case_LOCKED(c, s, in)
    [] c.state = FC_ABORT_LOCKOUT -> case_ABORT_LOCKOUT(c, s, in)
    [] OTHER -> case_default(c, s, in)

\* the three blocks of update_fsm chained
fsm_after(lb, in) == [c |-> fsm_switch(lb.c, lb.s, in), s |-> lb.s]

burnout_after(l, in) == fsm_after(burnout_step(l.c, l.s, in), in)

\* result: [c |-> context, s |-> statics]
update_fsm(c, s, in) == burnout_after(liftoff_step(c, s, in), in)

\* ---- fc_step --------------------------------------------------------------
\* variant: the brake is also commanded while the window is open
cmd_deg_of_mut(state) ==
  IF state \in {FC_WINDOW, FC_DEPLOYED} THEN FC_DEPLOY_CMD_DEG ELSE 0

\* the switch (c.state) that chooses cmd_deg
cmd_deg_of(state) == IF state = FC_DEPLOYED THEN FC_DEPLOY_CMD_DEG ELSE 0

\* out.* = ... ; t_since_launch_s is kept in ms
fc_outputs(c, in, m) ==
  [state |-> c.state, flags |-> c.flags,
   airbrake_cmd_deg |-> cmd_deg_of(c.state),
   t_to_apogee_s |-> in.t_apogee_s,
   t_since_launch_s |-> IF c.t_launch_ms > 0 THEN in.now_ms - c.t_launch_ms ELSE 0,
   mach_cons |-> m, tilt_deg |-> in.tilt_deg]

fc_step_fsm(b, in, m) == [c |-> b.c, s |-> b.s, out |-> fc_outputs(b.c, in, m)]

fc_step_flags(a, in) == fc_step_fsm(update_fsm(a.c, a.s, in), in, a.mach)

\* result: [c |-> context, s |-> statics, out |-> FcOutputs]
fc_step(c, s, in) == fc_step_flags(update_flags(c, s, in), in)

\* ---- the FC task (fusion.cpp) -----------------------------------------------
VARIABLES
  s_ctx,          \* static FcCoreCtx s_ctx
  statics,        \* mach_ok_state, agree_acc, liftoff_latched, burnout_latched
  s_stat,         \* static FcStatus s_stat, guarded by s_mutex
  s_core_inited,  \* static bool s_core_inited
  millis,         \* the millisecond clock, as last read by fc_task
  prev_ms,        \* fc_task local
  in,             \* FcInputs of the current (last) tick
  out,            \* FcOutputs of the last fc_step
  mach,           \* fc_step local, between update_flags and update_fsm
  pc,             \* position of fc_task in its loop body
  trail,          \* history: the FC states entered so far, in order
  hold_ms,        \* history: clock time spent in POST_BURN_HOLD so far
  latch_age,      \* history: 0 no tilt latch, 1 latched by the last fc_step,
                  \*          2 one fc_step later, 3 two or more later
  low_flight,     \* history: no tick so far had a number >= the deploy
                  \*          threshold as apogee_agl_m
  late_ticks,     \* history: fc_steps so far (at most 3 counted) that reported
                  \*          t_since_launch_s above the expected-TTA timeout
  rst             \* history: "none", "req" after fcSoftReset, "tick" once a
                  \*          loop iteration has started after it, "done"
                  \*          once that iteration has published

\* ---- the fusion task (fusion.cpp) ------------------------------------------
VARIABLES
  s_reset_req,    \* static volatile bool s_reset_req
  fus,            \* the statics of fusion_task and the AGL baseline statics
  s_fused_alt,    \* static FusedAlt s_fused_alt, guarded by s_alt_mutex
  fpc,            \* position of fusion_task in its loop body
  freset_ms       \* history: the clock at the fusion tick that last applied a
                  \*          soft reset, 0 when none has been applied

\* ---- the monitor task's "!cmd:soft_reset" (sensor_imu1.cpp) ------------------
VARIABLES
  mon             \* pc: "idle", or "fc" between fusionSoftReset and
                  \*     fcSoftReset
                  \* history: clean - no FC or fusion step since the command
                  \*          under way began; n - the commands completed one
                  \*          after the other (at most 2 counted) with no FC
                  \*          or fusion step since the first began

VARIABLES
  runs            \* history: for the Mach gate, the baro-agreement gate, the
                  \*          liftoff and the burnout detection, the dt summed
                  \*          over the unbroken run of fc_steps, up to the
                  \*          last one, on each of which the condition held
                  \*          (counted up to the dwell); held is the run
                  \*          of the baro-agreement condition over the
                  \*          steps that had both altitudes valid and finite

fcvars == <<s_ctx, statics, s_stat, s_core_inited, millis, prev_ms, in, out,
            mach, pc, trail, hold_ms, latch_age, low_flight, late_ticks, rst>>

fusvars == <<s_reset_req, fus, s_fused_alt, fpc, freset_ms>>

\* what fc_task and fcSoftReset never write
notfc == <<fusvars>>

VARIABLES
  s_latest,       \* telemetry.cpp: the record last published by task_telem_agg
  seq,            \* task_telem_agg: uint32_t seq
  s_open,         \* servo: static bool s_open
  s_cmd_us,       \* servo: static uint16_t s_cmd_us
  last_stamp,     \* task_servo_ctrl: uint32_t last_stamp
  sv              \* history of task_servo_ctrl: n counts its ticks modulo 2,
                  \*          seen is the timestamp_ms it read on its last
                  \*          tick, skipped says that this tick left the loop
                  \*          body at the watchdog's continue, wrote that
                  \*          it called servoOpen or servoClose, term that
                  \*          some tick has read a record whose state is
                  \*          ABORT_LOCKOUT or LOCKED

VARIABLES
  s_telem_mutex,  \* telemetry.cpp: "null" until task_telem_agg creates it, then
                  \*          "free" or the task that holds it
  s_telem_q,      \* telemetry.cpp: made says that xQueueCreate has run, items
                  \*          are the queued records, oldest first
  agg,            \* task_telem_agg: its position pc and its local rec
  getter,         \* a task inside telemetryGetLatest: its position pc, its
                  \*          out, and locked: it took s_telem_mutex
  sd_task,        \* task_sd_writer: "init" before SD.begin, "run" in its loop,
                  \*          "gone" after vTaskDelete
  tlog            \* history of the aggregator: pubs are the records it has
                  \*          stored in s_latest, sent counts its xQueueSend
                  \*          calls modulo 2, full says that the last call found
                  \*          the queue full, before are the items it found

VARIABLES
  bmp1_latest,    \* part_002 (BMP390 producer): static bmp_reading_t s_latest
  imu1_latest,    \* sensor_imu1.cpp: static imu1_reading_t s_latest
  misses,         \* history: the consecutive iterations of each producer whose
                  \*          bus read gave nothing
  lk,             \* the mutexes and the tasks that use them: own[m] is the
                  \*          task that holds the mutex m ("none" when free),
                  \*          pc[t] the next operation of the task t
  crcrec          \* telemetry.cpp: the bytes of a record before its crc32
                  \*          field (data), the crc32 field as two 16-bit
                  \*          halves (crc32), LOG_INCLUDE_CRC of
                  \*          the build (include), and whether a byte was
                  \*          changed after the record was built (flipped)

senvars == <<bmp1_latest, imu1_latest, misses, lk, crcrec>>
tqvars == <<s_telem_mutex, s_telem_q, agg, getter, sd_task, tlog>>
telvars == <<s_latest, seq, tqvars, senvars>>
srvvars == <<s_open, s_cmd_us, last_stamp, sv>>

\* what the steps of fc_task and fusion_task leave alone unless a
\* specification follows it
aux == <<mon, runs, telvars, srvvars>>

vars == <<fcvars, fusvars, mon, runs, telvars, srvvars>>

hist == <<trail, hold_ms, latch_age, low_flight, late_ticks>>

\* what fc_task copies out of the telemetry record (rec.fused, rec.bmp390,
\* rec.imu1, rec.imu2): one sample of the environment
Pad ==
  [tilt_deg |-> 0, agl_fused_m |-> 0, vz_fused_mps |-> 0, vz_mps |-> 0,
   az_imu1_mps2 |-> 0, t_apogee_s |-> 0, apogee_agl_m |-> 0, agl_ready |-> 1,
   bmp1_altitude_m |-> 1000, imu1_altitude_m |-> 1000,
   imu1_valid |-> TRUE, bmp1_valid |-> TRUE, imu2_valid |-> TRUE]

Boost ==
  [Pad EXCEPT !.agl_fused_m = 100, !.vz_fused_mps = 80, !.vz_mps = 80,
              !.az_imu1_mps2 = 40, !.t_apogee_s = 10, !.apogee_agl_m = 1000]

CoastHigh ==
  [Boost EXCEPT !.agl_fused_m = 800, !.az_imu1_mps2 = 0, !.apogee_agl_m = 3200]

CoastLow == [CoastHigh EXCEPT !.apogee_agl_m = 1000]

Late == [CoastHigh EXCEPT !.t_apogee_s = 3]

Nominal == {Pad, Boost, CoastHigh, CoastLow, Late}

\* a nominal sample with one field made bad
Special ==
  {[Pad EXCEPT !.tilt_deg = 45],
   [CoastHigh EXCEPT !.tilt_deg = 45],
   [CoastHigh EXCEPT !.tilt_deg = NaN],
   [CoastHigh EXCEPT !.imu1_valid = FALSE],
   [CoastHigh EXCEPT !.bmp1_valid = FALSE],
   [CoastHigh EXCEPT !.agl_fused_m = 100],
   [CoastHigh EXCEPT !.agl_fused_m = NaN],
   [CoastHigh EXCEPT !.apogee_agl_m = NaN],
   [CoastHigh EXCEPT !.t_apogee_s = NaN],
   [CoastHigh EXCEPT !.vz_fused_mps = 200, !.vz_mps = 200],
   [CoastHigh EXCEPT !.vz_fused_mps = NaN, !.vz_mps = NaN]}

Samples == Nominal \cup Special

\* the clock advance between two reads of millis() by fc_task: half a period
\* of the slowest dwell, or the 1000 ms that dt is clamped to
Deltas == {500, 1000}

\* the first read of millis() in the loop directly follows prev_ms = millis():
\* it may see the same millisecond, and dt is then clamped up to 1
FirstDeltas == {0}

\* dt = now - prev_ms, clamped to [1, 1000]
ClampDt(d) == IF d > 1000 THEN 1000 ELSE IF d < 1 THEN 1 ELSE d

\* FcInputs in{} as built by fc_task from the record e at time now
BuildInputs(e, now, prev) ==
  [dt_ms |-> ClampDt(now - prev), now_ms |-> now,
   tilt_deg |-> e.tilt_deg, agl_fused_m |-> e.agl_fused_m,
   vz_fused_mps |-> e.vz_fused_mps, vz_mps |-> e.vz_mps,
   az_imu1_mps2 |-> e.az_imu1_mps2, t_apogee_s |-> e.t_apogee_s,
   apogee_agl_m |-> e.apogee_agl_m, agl_ready |-> e.agl_ready,
   bmp1_altitude_m |-> e.bmp1_altitude_m, imu1_altitude_m |-> e.imu1_altitude_m,
   imu1_valid |-> e.imu1_valid, bmp1_valid |-> e.bmp1_valid,
   imu2_valid |-> e.imu2_valid]

\* FcStatus s_stat = {}
ZeroStat ==
  [stamp_ms |-> 0, state |-> FC_SAFE, flags |-> {}, mach_cons |-> 0,
   tilt_deg |-> 0, t_since_launch_s |-> 0, t_to_apogee_s |-> 0,
   airbrake_cmd_deg |-> 0]

\* the block of fc_task that copies out into s_stat under s_mutex
Publish(o, now) ==
  [stamp_ms |-> now, state |-> o.state, flags |-> o.flags,
   mach_cons |-> o.mach_cons, tilt_deg |-> o.tilt_deg,
   t_since_launch_s |-> o.t_since_launch_s, t_to_apogee_s |-> o.t_to_apogee_s,
   airbrake_cmd_deg |-> o.airbrake_cmd_deg]

\* FcOutputs out{}
ZeroOut ==
  [state |-> FC_SAFE, flags |-> {}, airbrake_cmd_deg |-> 0,
   t_since_launch_s |-> 0, t_to_apogee_s |-> 0, mach_cons |-> 0, tilt_deg |-> 0]

\* ---- fusion_task: configuration (app_config.h) -------------------------------
ZERO_AGL_AFTER_MS == 10000
FUSION_VZ_MAX_DT_MS == 200
\* FUSION_W_BMP1 0.70 in tenths, FUSION_VZ_ALPHA 0.85 in hundredths,
\* FUSION_VZ_FUSE_BETA 0.2 and FUSION_TILT_AZ_ALPHA 0.9 in tenths
FUSION_W_BMP1_X10 == 7
FUSION_VZ_ALPHA_X100 == 85
FUSION_VZ_FUSE_BETA_X10 == 2
FUSION_TILT_AZ_ALPHA_X10 == 9
FUSION_TILT_AZ_MIN_TILT_DEG == 2
\* SOS_10KFT_DELTA_K 19.8 in hundredths of a kelvin
SOS_10KFT_DELTA_CK == 1980
SOS_MIN_FLOOR_MPS == 300
\* cosf(TILT_MAX_DEPLOY_DEG * pi / 180) for 20 degrees, in ten-thousandths
CosTiltMaxDeployE4 == 9397

\* the statics of fusion_task and s_agl_ready, s_agl_arm_ms, s_base_*: their
\* initialisers.  Altitudes in m, speeds in m/s, angles in degrees, times in ms
FusInit ==
  [have_prev_alt |-> FALSE, prev_alt |-> NaN, prev_ms |-> 0, vz_filt |-> NaN,
   vz_acc |-> 0, have_tilt_az |-> FALSE, tilt_az |-> NaN,
   have_tilt_az_acc |-> FALSE, tilt_az_prev_deg |-> 0, tilt_az_unwrapped |-> 0,
   have_sos_refs |-> FALSE, sos_ground_mps |-> NaN, sos_10kft_mps |-> NaN,
   sos_min_mps |-> SOS_MIN_FLOOR_MPS,
   agl_ready |-> FALSE, agl_arm_ms |-> 0, base_bmp1_m |-> NaN, base_imu1_m |-> NaN]

\* static FusedAlt s_fused_alt = {} (the fields the model follows)
ZeroAlt ==
  [stamp_ms |-> 0, bmp1_alt_m |-> 0, imu1_alt_m |-> 0, agl_bmp1_m |-> 0,
   agl_imu1_m |-> 0, agl_fused_m |-> 0, agl_ready |-> FALSE, vz_mps |-> 0,
   vz_acc_mps |-> 0, vz_fused_mps |-> 0, az_imu1_mps2 |-> 0, sos_min_mps |-> 0,
   mach_cons |-> 0, tilt_deg |-> 0, tilt_az_unwrapped_deg |-> 0]

\* variant: the warm-up timer and the ready flag's arming time are kept
fusion_reset_mut(f) ==
  [f EXCEPT !.have_prev_alt = FALSE, !.prev_alt = NaN, !.prev_ms = 0,
            !.vz_filt = NaN, !.vz_acc = 0,
            !.have_tilt_az = FALSE, !.tilt_az = NaN,
            !.have_tilt_az_acc = FALSE, !.tilt_az_prev_deg = 0,
            !.tilt_az_unwrapped = 0,
            !.have_sos_refs = FALSE, !.sos_ground_mps = NaN,
            !.sos_10kft_mps = NaN, !.sos_min_mps = SOS_MIN_FLOOR_MPS,
            !.agl_ready = FALSE,
            !.base_bmp1_m = NaN, !.base_imu1_m = NaN]

\* the block under if (s_reset_req): every static back to its initialiser
fusion_reset(f) ==
  [f EXCEPT !.have_prev_alt = FALSE, !.prev_alt = NaN, !.prev_ms = 0,
            !.vz_filt = NaN, !.vz_acc = 0,
            !.have_tilt_az = FALSE, !.tilt_az = NaN,
            !.have_tilt_az_acc = FALSE, !.tilt_az_prev_deg = 0,
            !.tilt_az_unwrapped = 0,
            !.have_sos_refs = FALSE, !.sos_ground_mps = NaN,
            !.sos_10kft_mps = NaN, !.sos_min_mps = SOS_MIN_FLOOR_MPS,
            !.agl_ready = FALSE, !.agl_arm_ms = 0,
            !.base_bmp1_m = NaN, !.base_imu1_m = NaN]

\* memset(&s_fused_alt, 0, ...); s_fused_alt.stamp_ms = millis()
alt_cleared(now) == [ZeroAlt EXCEPT !.stamp_ms = now]

Max(a, b) == IF a > b THEN a ELSE b

\* sqrtf, to the integer below
isqrt(x) == CHOOSE r \in 0..400 : r * r <= x /\ x < (r + 1) * (r + 1)

\* sqrtf(gamma * R * T) with gamma 1.4, R 287.05 and T in hundredths of a kelvin
SosOf(Tck) == isqrt((40187 * Tck) \div 10000)

\* bmp_alt and imu_alt: the raw altitude, NaN when the reading is not valid
raw_bmp(fs) == IF fs.vb THEN fs.bmp_alt ELSE NaN
raw_imu(fs) == IF fs.vi THEN fs.imu_alt ELSE NaN

\* s_agl_arm_ms and s_agl_ready after the arming lines
agl_arm(f, now) == IF f.agl_arm_ms = 0 THEN now + ZERO_AGL_AFTER_MS ELSE f.agl_arm_ms
agl_ready_next(f, now) == f.agl_ready \/ now >= agl_arm(f, now)

\* variant: a baseline is captured before the ready flag is set
base_next_mut(base, raw, ready) ==
  IF isnan(base) /\ ~isnan(raw) THEN raw ELSE base

\* lazy capture of one baseline
base_next(base, raw, ready) ==
  IF ready /\ isnan(base) /\ ~isnan(raw) THEN raw ELSE base

\* per-sensor AGL
agl_of(base, raw, ready) ==
  IF ready /\ ~isnan(base) /\ ~isnan(raw) THEN raw - base ELSE NaN

\* weighted fusion when both are there, else the one that is
agl_fuse(a, b) ==
  IF ~isnan(a) /\ ~isnan(b)
  THEN (FUSION_W_BMP1_X10 * a + (10 - FUSION_W_BMP1_X10) * b) \div 10
  ELSE IF ~isnan(a) THEN a ELSE b

\* variant: a valid reading replaces the baseline on every ready tick
fusion_agl_mut(f, fs, now) ==
  LET ready == agl_ready_next(f, now)
      bb == base_next(NaN, raw_bmp(fs), ready)
      bi == base_next(NaN, raw_imu(fs), ready)
      ab == agl_of(bb, raw_bmp(fs), ready)
      ai == agl_of(bi, raw_imu(fs), ready)
  IN [f |-> [f EXCEPT !.agl_arm_ms = agl_arm(f, now), !.agl_ready = ready,
                      !.base_bmp1_m = bb, !.base_imu1_m = bi],
      agl_bmp1 |-> ab, agl_imu1 |-> ai, agl_fused |-> agl_fuse(ab, ai)]

\* the baseline part of one tick: arming, capture, AGL
fusion_agl(f, fs, now) ==
  LET ready == agl_ready_next(f, now)
      bb == base_next(f.base_bmp1_m, raw_bmp(fs), ready)
      bi == base_next(f.base_imu1_m, raw_imu(fs), ready)
      ab == agl_of(bb, raw_bmp(fs), ready)
      ai == agl_of(bi, raw_imu(fs), ready)
  IN [f |-> [f EXCEPT !.agl_arm_ms = agl_arm(f, now), !.agl_ready = ready,
                      !.base_bmp1_m = bb, !.base_imu1_m = bi],
      agl_bmp1 |-> ab, agl_imu1 |-> ai, agl_fused |-> agl_fuse(ab, ai)]

\* dt of the derivative, capped to [1, FUSION_VZ_MAX_DT_MS]
vz_dt(f, now) ==
  IF now - f.prev_ms < 1 THEN 1
  ELSE IF now - f.prev_ms > FUSION_VZ_MAX_DT_MS THEN FUSION_VZ_MAX_DT_MS
  ELSE now - f.prev_ms

\* the exponential moving average of the derivative of agl_fused
vz_ema(f, agl, now) ==
  LET inst == ((agl - f.prev_alt) * 1000) \div vz_dt(f, now)
      v0 == IF isnan(f.vz_filt) THEN inst ELSE f.vz_filt
  IN (FUSION_VZ_ALPHA_X100 * v0 + (100 - FUSION_VZ_ALPHA_X100) * inst) \div 100

\* vertical speed from the AGL derivative: result [f, vz, dt_ms]
fusion_vz(f, agl, now) ==
  IF f.agl_ready /\ ~isnan(agl)
  THEN IF f.have_prev_alt
       THEN [f |-> [f EXCEPT !.vz_filt = vz_ema(f, agl, now), !.prev_alt = agl,
                             !.prev_ms = now, !.have_prev_alt = TRUE],
             vz |-> vz_ema(f, agl, now), dt_ms |-> vz_dt(f, now)]
       ELSE [f |-> [f EXCEPT !.prev_alt = agl, !.prev_ms = now,
                             !.have_prev_alt = TRUE],
             vz |-> NaN, dt_ms |-> NaN]
  ELSE [f |-> [f EXCEPT !.have_prev_alt = FALSE, !.vz_filt = NaN],
        vz |-> NaN, dt_ms |-> NaN]

\* az_e_mps2 ([2] of the rotated acceleration minus G0): NaN without IMU-A
az_earth(fs) == IF fs.vi THEN fs.az ELSE NaN

\* the leaky integrator of az (FUSION_USE_ACC_INT), leak 0.02 per update
vz_acc_next(f, fs, dt_ms) ==
  IF ~fs.vi THEN f.vz_acc
  ELSE IF ~isnan(fs.az) /\ f.have_prev_alt
       THEN (98 * f.vz_acc) \div 100
            + (fs.az * (IF isnan(dt_ms) THEN FUSION_VZ_MAX_DT_MS ELSE dt_ms)) \div 1000
       ELSE IF ~f.have_prev_alt THEN 0 ELSE f.vz_acc

\* conservative SoS references, latched once from a valid barometer reading
sos_refs(f, fs) ==
  IF ~f.have_sos_refs /\ fs.vb
  THEN LET T0 == fs.temp_c * 100 + 27315
           g == SosOf(T0)
           h == SosOf(Max(T0 - SOS_10KFT_DELTA_CK, 15000))
       IN [f EXCEPT !.sos_ground_mps = g, !.sos_10kft_mps = h,
                    !.sos_min_mps = Max(SOS_MIN_FLOOR_MPS, Min(g, h)),
                    !.have_sos_refs = TRUE]
  ELSE f

\* delta wrapped into [-180, 180]
Wrap(delta) ==
  IF delta > 180 THEN delta - 360 ELSE IF delta < -180 THEN delta + 360 ELSE delta

\* the smoothed unit vector, followed as its angle: it moves a tenth of the
\* way from the old direction a to the sample b
az_smooth(a, b) ==
  Wrap(a + ((10 - FUSION_TILT_AZ_ALPHA_X10) * Wrap(b - a)) \div 10)

\* smoothing of the tilt azimuth: result is f with have_tilt_az, tilt_az
tilt_az_next(f, fs) ==
  IF fs.vi /\ ~isnan(fs.tilt) /\ fs.tilt >= FUSION_TILT_AZ_MIN_TILT_DEG
     /\ ~isnan(fs.haz)
  THEN IF ~f.have_tilt_az \/ isnan(f.tilt_az)
       THEN [f EXCEPT !.tilt_az = fs.haz, !.have_tilt_az = TRUE]
       ELSE [f EXCEPT !.tilt_az = az_smooth(f.tilt_az, fs.haz)]
  ELSE f

\* tilt_az_deg of the tick, given f after tilt_az_next
tilt_az_deg(f, fs) == IF fs.vi /\ f.have_tilt_az THEN f.tilt_az ELSE NaN

\* unwrap across +-180 into a continuous angle
tilt_unwrap(f, azd) ==
  IF isnan(azd) THEN f
  ELSE IF ~f.have_tilt_az_acc
       THEN [f EXCEPT !.tilt_az_prev_deg = azd, !.tilt_az_unwrapped = azd,
                      !.have_tilt_az_acc = TRUE]
       ELSE [f EXCEPT !.tilt_az_unwrapped = @ + Wrap(azd - f.tilt_az_prev_deg),
                      !.tilt_az_prev_deg = azd]

\* complementary fusion of the two vertical speeds
vz_fuse(vz, vacc) ==
  IF ~isnan(vz) /\ ~isnan(vacc)
  THEN (FUSION_VZ_FUSE_BETA_X10 * vz + (10 - FUSION_VZ_FUSE_BETA_X10) * vacc) \div 10
  ELSE IF ~isnan(vz) THEN vz ELSE vacc

\* conservative Mach in thousandths, NaN without vz_fused or SoS references
mach_cons_of(f, vzf) ==
  IF ~isnan(vzf) /\ f.have_sos_refs
  THEN (fabsf(vzf) * 10000000) \div (CosTiltMaxDeployE4 * f.sos_min_mps)
  ELSE NaN

\* what fusion_task writes into s_fused_alt under s_alt_mutex
alt_snapshot(f, fs, now, g, vz, vzf, azd) ==
  [stamp_ms |-> now, bmp1_alt_m |-> raw_bmp(fs), imu1_alt_m |-> raw_imu(fs),
   agl_bmp1_m |-> g.agl_bmp1, agl_imu1_m |-> g.agl_imu1,
   agl_fused_m |-> g.agl_fused, agl_ready |-> f.agl_ready, vz_mps |-> vz,
   vz_acc_mps |-> f.vz_acc, vz_fused_mps |-> vzf,
   az_imu1_mps2 |-> az_earth(fs), sos_min_mps |-> f.sos_min_mps,
   mach_cons |-> mach_cons_of(f, vzf),
   tilt_deg |-> IF fs.vi THEN fs.tilt ELSE NaN,
   tilt_az_unwrapped_deg |-> IF isnan(azd) THEN NaN ELSE f.tilt_az_unwrapped]

\* the loop body of fusion_task after the reset block, for the readings fs at
\* time now: result [f |-> statics, alt |-> FusedAlt]
fusion_body(f, fs, now) ==
  LET g == fusion_agl(f, fs, now)
      v == fusion_vz(g.f, g.agl_fused, now)
      f3 == [v.f EXCEPT !.vz_acc = vz_acc_next(v.f, fs, v.dt_ms)]
      f5 == tilt_az_next(sos_refs(f3, fs), fs)
      azd == tilt_az_deg(f5, fs)
      f6 == tilt_unwrap(f5, azd)
  IN [f |-> f6,
      alt |-> alt_snapshot(f6, fs, now, g, v.vz, vz_fuse(v.vz, f6.vz_acc), azd)]

\* ---- telemetry.cpp: the record of task_telem_agg -------------------------------
TELEM_PERIOD_MS == 20

\* static TelemetryRecord s_latest = {} (the fields the model follows)
ZeroRec ==
  [seq |-> 0, timestamp_ms |-> 0, fc_state |-> 0,
   sens_imu1_ok |-> 0, sens_bmp1_ok |-> 0, sens_imu2_ok |-> 0, tilt_latch |-> 0,
   fc_t_to_apogee_s |-> 0, airbrake_cmd_deg |-> 0, agl_ready |-> 0,
   mach_cons |-> 0]

Bit(flags, b) == IF b \in flags THEN 1 ELSE 0

\* variant: the FC status is not copied into the record
telemetry_build_mut(n, now, st, f) ==
  [seq |-> n, timestamp_ms |-> now, fc_state |-> 0,
   sens_imu1_ok |-> 0, sens_bmp1_ok |-> 0, sens_imu2_ok |-> 0, tilt_latch |-> 0,
   fc_t_to_apogee_s |-> 0, airbrake_cmd_deg |-> 0,
   agl_ready |-> IF f.agl_ready THEN 1 ELSE 0,
   mach_cons |-> f.mach_cons]

\* telemetry_build(rec, seq) at millis() = now, with st and f the copies given
\* by fcGetStatus and fusionGetAlt
telemetry_build(n, now, st, f) ==
  [seq |-> n, timestamp_ms |-> now, fc_state |-> st.state,
   sens_imu1_ok |-> Bit(st.flags, FCF_SENS_IMU1_OK),
   sens_bmp1_ok |-> Bit(st.flags, FCF_SENS_BMP1_OK),
   sens_imu2_ok |-> Bit(st.flags, FCF_SENS_IMU2_OK),
   tilt_latch |-> Bit(st.flags, FCF_TILT_LATCH),
   fc_t_to_apogee_s |-> st.t_to_apogee_s,
   airbrake_cmd_deg |-> st.airbrake_cmd_deg,
   agl_ready |-> IF f.agl_ready THEN 1 ELSE 0,
   mach_cons |-> f.mach_cons]

\* ---- the servo controller: task_servo_ctrl --------------------------------------
SERVO_MIN_US == 1000
SERVO_MAX_US == 1400
SERVO_TASK_PERIOD_MS == 20
\* fu.mach_cons < 0.5f, in thousandths
ServoMachMax == 500
\* sys.fc_t_to_apogee_s <= 1.0f
ServoNearApogeeS == 1

\* servoWriteUS(us): the command clamped to [s_min_us, s_max_us]
servoWriteUS(us) ==
  IF us < SERVO_MIN_US THEN SERVO_MIN_US
  ELSE IF us > SERVO_MAX_US THEN SERVO_MAX_US ELSE us

\* variant: only a record that was never published counts as a stall
stalled_mut(rec, last) == rec.timestamp_ms = 0

\* the watchdog's test on the record just read
stalled(rec, last) == rec.timestamp_ms = 0 \/ rec.timestamp_ms = last

abort_or_lock(rec) == rec.fc_state = FC_ABORT_LOCKOUT \/ rec.fc_state = FC_LOCKED

health_ok(rec) ==
  /\ rec.sens_imu1_ok # 0 /\ rec.sens_bmp1_ok # 0 /\ rec.sens_imu2_ok # 0
  /\ rec.agl_ready # 0

near_apogee(rec) ==
  ~isnan(rec.fc_t_to_apogee_s) /\ rec.fc_t_to_apogee_s <= ServoNearApogeeS

\* variant: the servo may open in any state but BOOST, LOCKED and ABORT_LOCKOUT
should_open_mut(rec) ==
  /\ /\ ~abort_or_lock(rec) /\ health_ok(rec)
     /\ rec.tilt_latch = 0
     /\ ~isnan(rec.mach_cons) /\ rec.mach_cons < ServoMachMax
     /\ rec.fc_state # FC_BOOST
  /\ ~(abort_or_lock(rec) \/ ~health_ok(rec) \/ rec.tilt_latch # 0 \/ near_apogee(rec))

\* bool should_open after both if statements
should_open(rec) ==
  /\ /\ ~abort_or_lock(rec) /\ health_ok(rec)
     /\ rec.tilt_latch = 0
     /\ ~isnan(rec.mach_cons) /\ rec.mach_cons < ServoMachMax
     /\ rec.fc_state # FC_BOOST
     /\ rec.fc_state = FC_WINDOW
  /\ ~(abort_or_lock(rec) \/ ~health_ok(rec) \/ rec.tilt_latch # 0 \/ near_apogee(rec))

\* fc_task up to the top of its loop: s_core_inited is false, so fc_init runs;
\* fusion_task up to the top of its loop
Init ==
  /\ s_ctx = fc_init
  /\ statics = StaticsInit
  /\ s_stat = ZeroStat
  /\ s_core_inited = TRUE
  /\ millis = BootMs
  /\ prev_ms = BootMs
  /\ in = BuildInputs(Pad, BootMs, BootMs)
  /\ out = ZeroOut
  /\ mach = NaN
  /\ pc = "top"
  /\ trail = <<FC_PREFLIGHT>>
  /\ hold_ms = 0
  /\ latch_age = 0
  /\ low_flight = TRUE
  /\ late_ticks = 0
  /\ rst = "none"
  /\ s_reset_req = FALSE
  /\ fus = FusInit
  /\ s_fused_alt = ZeroAlt
  /\ fpc = "top"
  /\ freset_ms = 0
  /\ mon = [pc |-> "idle", n |-> 0, clean |-> FALSE]
  /\ runs = [mach |-> 0, agree |-> 0, held |-> 0, lift |-> 0]
  /\ s_latest = ZeroRec
  /\ seq = 0
  /\ s_open = FALSE
  /\ s_cmd_us = servoWriteUS(SERVO_MIN_US)
  /\ last_stamp = 0
  /\ sv = [n |-> 0, seen |-> 0, skipped |-> FALSE, wrote |-> FALSE,
          term |-> FALSE]
  /\ bmp1_latest = [valid |-> FALSE, altitude_m |-> 0]
  /\ imu1_latest = [valid |-> FALSE, altitude_m |-> 0]
  /\ misses = [bmp1 |-> 0, imu1 |-> 0]
  /\ lk = [own |-> [m \in {"setup", "i2c", "spi", "bmp1Data", "imu1Data",
                            "imu2Data", "alt", "fc", "telem"} |-> "none"],
           pc |-> [t \in {"bmp1", "imu1", "imu2", "telem", "sdlog", "loopTask"}
                     |-> 1]]
  /\ crcrec = [data |-> <<>>, crc32 |-> [hi |-> 0, lo |-> 0], include |-> FALSE,
               flipped |-> FALSE]
  /\ s_telem_mutex = "null"
  /\ s_telem_q = [made |-> FALSE, items |-> <<>>]
  /\ agg = [pc |-> "create", rec |-> ZeroRec]
  /\ getter = [pc |-> "idle", out |-> ZeroRec, locked |-> FALSE, n |-> 0]
  /\ sd_task = "init"
  /\ tlog = [pubs |-> {}, sent |-> 0, full |-> FALSE, before |-> <<>>]

\* history bookkeeping of one fc_step that took the context from c0 to c1
\* with the clock advanced by d
Trail1(c0, c1) == IF c1.state # c0.state THEN Append(trail, c1.state) ELSE trail
Hold1(c0, c1, d) ==
  IF c0.state = FC_POST_BURN_HOLD THEN hold_ms + d ELSE hold_ms
Age1(c0, c1) ==
  IF c1.tilt_latched = 0 THEN 0
  ELSE IF c0.tilt_latched = 0 THEN 1
  ELSE IF latch_age < 3 THEN latch_age + 1 ELSE 3
Low1(i) ==
  low_flight /\ (isnan(i.apogee_agl_m)
                 \/ i.apogee_agl_m < FC_TARGET_APOGEE_AGL_M + FC_APOGEE_HIGH_MARGIN_M)
Late1(o) ==
  IF o.t_since_launch_s > TtaTimeoutMs /\ late_ticks < 3
  THEN late_ticks + 1 ELSE late_ticks

\* one whole iteration of the loop of fc_task, nothing interleaved:
\* read the record and the clock, fc_step, publish
FcTickAt(d, e, maxNow) ==
  /\ pc = "top"
  /\ millis + d <= maxNow
  /\ \E now \in {millis + d} : \E i \in {BuildInputs(e, now, prev_ms)} :
     \E r \in {fc_step(s_ctx, statics, i)} :
        /\ millis' = now
        /\ prev_ms' = now
        /\ in' = i
        /\ s_ctx' = r.c
        /\ statics' = r.s
        /\ out' = r.out
        /\ mach' = r.out.mach_cons
        /\ s_stat' = Publish(r.out, now)
        /\ trail' = Trail1(s_ctx, r.c)
        /\ hold_ms' = Hold1(s_ctx, r.c, d)
        /\ latch_age' = Age1(s_ctx, r.c)
        /\ low_flight' = Low1(i)
        /\ late_ticks' = Late1(r.out)
  /\ UNCHANGED <<s_core_inited, pc, rst, notfc>>

FcTick ==
  /\ \E d \in Deltas, e \in Samples : FcTickAt(d, e, MaxNow)
  /\ UNCHANGED aux

\* the first iteration after the task has started
FcFirstTick ==
  /\ out = ZeroOut
  /\ \E d \in FirstDeltas, e \in Samples : FcTickAt(d, e, MaxNow)
  /\ UNCHANGED aux

\* the FC core driven by fc_task alone: every step is one fc_step
Next == FcTick \/ FcFirstTick

Spec == Init /\ [][Next]_vars

\* ---- long flights: second-long periods and stalls of the task ----------------
MaxNowLong == 25100
LongDeltas == {1000, 10000}
LongSamples ==
  {Pad, CoastHigh, CoastLow, Late, [CoastHigh EXCEPT !.tilt_deg = 45]}

FcTickLong ==
  /\ \E d \in LongDeltas, e \in LongSamples : FcTickAt(d, e, MaxNowLong)
  /\ UNCHANGED aux

NextLong == FcTickLong

SpecLong == Init /\ [][NextLong]_vars

\* ---- fc_task interleaved with the monitor task's fcSoftReset -----------------
MaxNowTask == 6100
TaskDeltas == {1000}
TaskSamples == {Pad, CoastHigh, Late, [CoastHigh EXCEPT !.tilt_deg = 45]}

\* top of the loop: telemetryGetLatest, millis(), dt, FcInputs in{}
FcRead ==
  /\ pc = "top"
  /\ \E d \in TaskDeltas, e \in TaskSamples :
       /\ millis + d <= MaxNowTask
       /\ millis' = millis + d
       /\ in' = BuildInputs(e, millis + d, prev_ms)
       /\ prev_ms' = millis + d
  /\ pc' = "flags"
  /\ rst' = IF rst = "req" THEN "tick" ELSE rst
  /\ UNCHANGED <<s_ctx, statics, s_stat, s_core_inited, out, mach, hist, notfc,
                 aux>>

\* fc_step, first half: update_flags(c, in, mach) on s_ctx, no lock held
FcUpdateFlags ==
  /\ pc = "flags"
  /\ \E a \in {update_flags(s_ctx, statics, in)} :
       /\ s_ctx' = a.c
       /\ statics' = a.s
       /\ mach' = a.mach
  /\ pc' = "fsm"
  /\ UNCHANGED <<s_stat, s_core_inited, millis, prev_ms, in, out, hist, rst, notfc,
                 aux>>

\* fc_step, second call: update_fsm(c, in) on s_ctx, no lock held
FcUpdateFsm ==
  /\ pc = "fsm"
  /\ \E b \in {update_fsm(s_ctx, statics, in)} :
       /\ s_ctx' = b.c
       /\ statics' = b.s
  /\ pc' = "out"
  /\ UNCHANGED <<s_stat, s_core_inited, millis, prev_ms, in, out, mach, hist, rst,
                 notfc, aux>>

\* fc_step, the rest: c.state is loaded once for the switch and for out.state,
\* then the other fields of the task's local FcOutputs are filled from s_ctx
FcOutputs ==
  /\ pc = "out"
  /\ out' = fc_outputs(s_ctx, in, mach)
  /\ pc' = "publish"
  /\ UNCHANGED <<s_ctx, statics, s_stat, s_core_inited, millis, prev_ms, in, mach,
                 hist, rst, notfc, aux>>

\* s_stat written under s_mutex, then vTaskDelayUntil
FcPublish ==
  /\ pc = "publish"
  /\ s_stat' = Publish(out, in.now_ms)
  /\ pc' = "top"
  /\ rst' = IF rst = "tick" THEN "done" ELSE rst
  /\ UNCHANGED <<s_ctx, statics, s_core_inited, millis, prev_ms, in, out, mach, hist,
                 notfc, aux>>

\* fcSoftReset, called by the monitor task on "!cmd:soft_reset": under s_mutex
\* s_stat and s_ctx are zeroed and s_core_inited is cleared.  fc_task tests
\* s_core_inited before its loop only, so nothing in the loop reads it again
fcSoftReset ==
  /\ s_stat' = [ZeroStat EXCEPT !.state = FC_SAFE]
  /\ s_ctx' = ZeroCtx
  /\ s_core_inited' = FALSE
  /\ rst' = "req"
  /\ UNCHANGED <<statics, millis, prev_ms, in, out, mach, pc, hist, notfc>>

\* the reset called at any point of the loop of fc_task
TaskReset == fcSoftReset /\ UNCHANGED aux

NextTask ==
  FcRead \/ FcUpdateFlags \/ FcUpdateFsm \/ FcOutputs \/ FcPublish \/ TaskReset

SpecTask == Init /\ [][NextTask]_vars

\* ---- fusion_task interleaved with the monitor task's fusionSoftReset --------
MaxNowFus == 30100
FusDeltas == {4000, 5000}

\* the readings of one fusion tick: bmp1Get, imu1Get and what is derived from
\* the quaternion and the acceleration of IMU-A
FPad ==
  [vb |-> TRUE, bmp_alt |-> 1000, temp_c |-> 15, vi |-> TRUE, imu_alt |-> 1000,
   az |-> 0, tilt |-> 0, haz |-> NaN]
FusSamples ==
  {FPad,
   [FPad EXCEPT !.vb = FALSE],
   [FPad EXCEPT !.vi = FALSE],
   [FPad EXCEPT !.bmp_alt = 1010, !.imu_alt = 1012, !.az = 10, !.tilt = 5,
                !.haz = 170],
   [FPad EXCEPT !.bmp_alt = 1020, !.imu_alt = 1020, !.tilt = 5, !.haz = -170]}

\* top of the loop after vTaskDelayUntil: a pending reset request is consumed
\* and applied; the published snapshot is cleared under s_alt_mutex
FusionTopAt(d, maxNow) ==
  /\ fpc = "top"
  /\ millis + d <= maxNow
  /\ millis' = millis + d
  /\ IF s_reset_req
     THEN /\ s_reset_req' = FALSE
          /\ fus' = fusion_reset(fus)
          /\ s_fused_alt' = alt_cleared(millis + d)
          /\ freset_ms' = millis + d
     ELSE UNCHANGED <<s_reset_req, fus, s_fused_alt, freset_ms>>
  /\ fpc' = "body"
  /\ UNCHANGED <<s_ctx, statics, s_stat, s_core_inited, prev_ms, in, out, mach,
                 pc, hist, rst>>

\* the rest of the loop body: readings, now = millis(), filters, publication
FusionBodyWith(fs) ==
  /\ fpc = "body"
  /\ \E r \in {fusion_body(fus, fs, millis)} :
       /\ fus' = r.f
       /\ s_fused_alt' = r.alt
  /\ fpc' = "top"
  /\ UNCHANGED <<fcvars, s_reset_req, freset_ms>>

\* variant: the request word is toggled instead of set
fusionSoftReset_mut ==
  /\ s_reset_req' = ~s_reset_req
  /\ UNCHANGED <<fcvars, fus, s_fused_alt, fpc, freset_ms>>

\* fusionSoftReset, called by the monitor task on "!cmd:soft_reset"
fusionSoftReset ==
  /\ s_reset_req' = TRUE
  /\ UNCHANGED <<fcvars, fus, s_fused_alt, fpc, freset_ms>>

FusionTop == (\E d \in FusDeltas : FusionTopAt(d, MaxNowFus)) /\ UNCHANGED aux

FusionBody == (\E fs \in FusSamples : FusionBodyWith(fs)) /\ UNCHANGED aux

\* the reset requested at any point of the loop of fusion_task
FusReset == fusionSoftReset /\ UNCHANGED aux

NextFusion == FusionTop \/ FusionBody \/ FusReset

SpecFusion == Init /\ [][NextFusion]_vars

\* ---- the soft-reset command of the monitor task, between FC and fusion ticks -
MaxNowReset == 25100
ResetDelta == 5000
ResetSamples == {Pad, CoastHigh}
ResetFusSamples ==
  {FPad, [FPad EXCEPT !.bmp_alt = 1010, !.imu_alt = 1012, !.az = 10, !.tilt = 5,
                      !.haz = 170]}

\* a step of the FC or of the fusion task ends a run of back-to-back commands
Ticked == [mon EXCEPT !.n = 0, !.clean = FALSE]

\* svc::fusionSoftReset(), first call of the command
MonFusionReset ==
  /\ mon.pc = "idle"
  /\ fusionSoftReset
  /\ mon' = [mon EXCEPT !.pc = "fc", !.clean = TRUE]
  /\ UNCHANGED <<runs, telvars, srvvars>>

\* svc::fcSoftReset(), second call of the command
MonFcReset ==
  /\ mon.pc = "fc"
  /\ fcSoftReset
  /\ mon' = [pc |-> "idle", clean |-> FALSE,
             n |-> IF mon.clean THEN Min(mon.n + 1, 2) ELSE 0]
  /\ UNCHANGED <<runs, telvars, srvvars>>

ResetFcTick ==
  /\ \E e \in ResetSamples : FcTickAt(ResetDelta, e, MaxNowReset)
  /\ mon' = Ticked
  /\ UNCHANGED <<runs, telvars, srvvars>>

ResetFusionTop ==
  FusionTopAt(ResetDelta, MaxNowReset) /\ mon' = Ticked
  /\ UNCHANGED <<runs, telvars, srvvars>>

ResetFusionBody ==
  /\ \E fs \in ResetFusSamples : FusionBodyWith(fs)
  /\ mon' = Ticked
  /\ UNCHANGED <<runs, telvars, srvvars>>

NextReset ==
  MonFusionReset \/ MonFcReset \/ ResetFcTick \/ ResetFusionTop \/ ResetFusionBody

SpecReset == Init /\ [][NextReset]_vars

\* ---- fc_task at its own period: one gate's debounce at a time ----------------
\* the run of a condition after one more fc_step of dt ms
RunAdd(r, cond, dt, th) == IF cond THEN Min(r + dt, th) ELSE 0

\* runs after the fc_step on the inputs i
Runs1(i) ==
  [mach  |-> RunAdd(runs.mach,
                    ~isnan(mach_of(i)) /\ mach_of(i) < FC_MACH_MAX_FOR_DEPLOY,
                    i.dt_ms, FC_MACH_DWELL_MS),
   agree |-> RunAdd(runs.agree,
                    baro_both(i) /\ baro_diff(i) <= FC_BARO_AGREE_M,
                    i.dt_ms, FC_BARO_AGREE_MS),
   held  |-> IF baro_both(i)
             THEN RunAdd(runs.held, baro_diff(i) <= FC_BARO_AGREE_M,
                         i.dt_ms, FC_BARO_AGREE_MS)
             ELSE runs.held,
   lift  |-> RunAdd(runs.lift, liftoff_cond(i), i.dt_ms, FC_LIFTOFF_DWELL_MS)]

\* one iteration of fc_task, the runs followed
FcTickRuns(D, E, maxNow) ==
  /\ \E d \in D, e \in E : FcTickAt(d, e, maxNow)
  /\ runs' = Runs1(in')
  /\ UNCHANGED <<mon, telvars, srvvars>>

\* sensor validity: rec.imu1.ok, rec.bmp390.ok, rec.imu2.ok come and go
MaxNowSens == 2100
SensDeltas == {100, 500}
SensSamples ==
  {Pad,
   [Pad EXCEPT !.imu1_valid = FALSE, !.imu1_altitude_m = 0],
   [Pad EXCEPT !.bmp1_valid = FALSE, !.bmp1_altitude_m = 0],
   [Pad EXCEPT !.imu2_valid = FALSE]}

FcTickSens == FcTickRuns(SensDeltas, SensSamples, MaxNowSens)

SpecSens == Init /\ [][FcTickSens]_vars

\* the Mach gate: vz below the ON threshold, inside the hysteresis band, above
\* the OFF threshold, and not a number
MaxNowMach == 1100
MachDeltas == {100, 200}
MachSamples ==
  {Pad,
   [Pad EXCEPT !.vz_fused_mps = 133, !.vz_mps = 133],
   [Pad EXCEPT !.vz_fused_mps = 200, !.vz_mps = 200],
   [Pad EXCEPT !.vz_fused_mps = NaN, !.vz_mps = NaN]}

FcTickMach == FcTickRuns(MachDeltas, MachSamples, MaxNowMach)

SpecMach == Init /\ [][FcTickMach]_vars

\* every gate of the bitmask: tilt, Mach, baro agreement and one sensor's
\* validity change from tick to tick
MaxNowFlags == 1900
FlagsDeltas == {100, 500}
FlagsSamples ==
  {Pad,
   [Pad EXCEPT !.tilt_deg = 45],
   [Pad EXCEPT !.vz_fused_mps = 200, !.vz_mps = 200, !.imu1_altitude_m = 1020],
   [Pad EXCEPT !.imu1_valid = FALSE, !.imu1_altitude_m = 0]}

FcTickFlags == FcTickRuns(FlagsDeltas, FlagsSamples, MaxNowFlags)

SpecFlags == Init /\ [][FcTickFlags]_vars

\* liftoff and burnout: each of the three liftoff conditions alone, none of
\* them, and an acceleration that is not a number
MaxNowLift == 1100
LiftDeltas == {50, 100}
LiftSamples ==
  {Pad,
   [Pad EXCEPT !.az_imu1_mps2 = 40],
   [Pad EXCEPT !.vz_fused_mps = 80, !.vz_mps = 80],
   [Pad EXCEPT !.agl_fused_m = 100, !.az_imu1_mps2 = 5],
   [Pad EXCEPT !.az_imu1_mps2 = NaN]}

FcTickLift == FcTickRuns(LiftDeltas, LiftSamples, MaxNowLift)

SpecLift == Init /\ [][FcTickLift]_vars

\* the baro agreement gate: the two altitudes equal, within and beyond
\* FC_BARO_AGREE_M, the barometer invalid (telemetry_build leaves its zeroed
\* altitude in the record) and an altitude that is not a number
MaxNowAgree == 1100
AgreeDeltas == {100, 200}
AgreeSamples ==
  {Pad,
   [Pad EXCEPT !.imu1_altitude_m = 1010],
   [Pad EXCEPT !.imu1_altitude_m = 1020],
   [Pad EXCEPT !.bmp1_valid = FALSE, !.bmp1_altitude_m = 0],
   [Pad EXCEPT !.imu1_altitude_m = NaN]}

FcTickAgree == FcTickRuns(AgreeDeltas, AgreeSamples, MaxNowAgree)

SpecAgree == Init /\ [][FcTickAgree]_vars

\* ---- the servo controller beside the aggregator, the FC and the fusion task ----
MaxNowServo == 50200
MaxSeq == 2
ServoDelta == 10000
ServoFcSamples == {Boost, CoastLow}
ServoFusSamples == {FPad}

\* one iteration of task_telem_agg: the record is built and published under
\* s_telem_mutex
TelemAggAt(maxSeq, maxNow) ==
  /\ seq < maxSeq
  /\ millis + TELEM_PERIOD_MS <= maxNow
  /\ millis' = millis + TELEM_PERIOD_MS
  /\ s_latest' = telemetry_build(seq, millis + TELEM_PERIOD_MS, s_stat, s_fused_alt)
  /\ seq' = seq + 1
  /\ UNCHANGED <<s_ctx, statics, s_stat, s_core_inited, prev_ms, in, out, mach,
                 pc, hist, rst>>
  /\ UNCHANGED <<s_reset_req, fus, s_fused_alt, fpc, freset_ms>>
  /\ UNCHANGED <<mon, runs, srvvars, tqvars, senvars>>

TelemAgg == TelemAggAt(MaxSeq, MaxNowServo)

\* one iteration of task_servo_ctrl on the record rec that telemetryGetLatest
\* copies out
ServoTickOn(rec) ==
  /\ IF stalled(rec, last_stamp)
     THEN /\ s_open' = FALSE
          /\ s_cmd_us' = servoWriteUS(SERVO_MIN_US)
          /\ UNCHANGED last_stamp
     ELSE /\ last_stamp' = rec.timestamp_ms
          /\ IF should_open(rec) # s_open
             THEN /\ s_open' = should_open(rec)
                  /\ s_cmd_us' = servoWriteUS(IF should_open(rec)
                                               THEN SERVO_MAX_US ELSE SERVO_MIN_US)
             ELSE UNCHANGED <<s_open, s_cmd_us>>
  /\ sv' = [n |-> 1 - sv.n, seen |-> rec.timestamp_ms,
            skipped |-> stalled(rec, last_stamp),
            wrote |-> stalled(rec, last_stamp) \/ should_open(rec) # s_open,
            term |-> sv.term \/ abort_or_lock(rec)]

ServoTick ==
  /\ ServoTickOn(s_latest)
  /\ UNCHANGED <<fcvars, fusvars, mon, runs, telvars>>

ServoFcTick ==
  /\ \E e \in ServoFcSamples : FcTickAt(ServoDelta, e, MaxNowServo)
  /\ UNCHANGED aux

ServoFusionTop == FusionTopAt(ServoDelta, MaxNowServo) /\ UNCHANGED aux

ServoFusionBody == (\E fs \in ServoFusSamples : FusionBodyWith(fs)) /\ UNCHANGED aux

NextServo ==
  TelemAgg \/ ServoTick \/ ServoFcTick \/ ServoFusionTop \/ ServoFusionBody

SpecServo == Init /\ [][NextServo]_vars

\* ---- the servo controller while the FC goes to ABORT_LOCKOUT or LOCKED ----------
MaxNowAbort == 60200
MaxSeqAbort == 2
AbortFcSamples == {CoastLow, [CoastLow EXCEPT !.tilt_deg = 45]}

AbortTelemAgg == TelemAggAt(MaxSeqAbort, MaxNowAbort)

AbortFcTick ==
  /\ \E e \in AbortFcSamples : FcTickAt(ServoDelta, e, MaxNowAbort)
  /\ UNCHANGED aux

AbortFusionTop == FusionTopAt(ServoDelta, MaxNowAbort) /\ UNCHANGED aux

NextAbort ==
  AbortTelemAgg \/ ServoTick \/ AbortFcTick \/ AbortFusionTop \/ ServoFusionBody

SpecAbort == Init /\ [][NextAbort]_vars

\* ---- telemetry.cpp: the aggregator, a getter and the SD writer, step by step ----
MaxSeqTelem == 3
MaxNowTelem == 160
\* xQueueCreate(128, sizeof(TelemetryRecord)), with a shorter queue
TelemQueueLen == 2

\* variant: seq is not incremented
seq_next_mut(n) == n
\* seq++ (a uint32_t: it wraps after 2^32 ticks, far beyond MaxSeqTelem)
seq_next(n) == n + 1

\* xQueueSend(s_telem_q, &rec, 0) on the items q: with no time to wait, a full
\* queue is left as it is and the call fails
xQueueSend(q, r) == IF Len(q) < TelemQueueLen THEN Append(q, r) ELSE q

\* a struct assignment dst = src is a copy in memory order; the model lets it be
\* interrupted once, after hdr.seq
copy_head(dst, src) == [dst EXCEPT !.seq = src.seq]
copy_tail(dst, src) == [src EXCEPT !.seq = dst.seq]

tel_others ==
  <<fcvars, fusvars, mon, runs, srvvars, senvars>>

\* if (!s_telem_mutex) s_telem_mutex = xSemaphoreCreateMutex()
AggCreate ==
  /\ agg.pc = "create"
  /\ s_telem_mutex' = IF s_telem_mutex = "null" THEN "free" ELSE s_telem_mutex
  /\ agg' = [agg EXCEPT !.pc = "build"]
  /\ UNCHANGED <<s_latest, seq, s_telem_q, getter, sd_task, tlog, tel_others>>

\* TelemetryRecord rec; telemetry_build(rec, seq++), one TELEM_PERIOD_MS after
\* the last one
AggBuild ==
  /\ agg.pc = "build"
  /\ seq < MaxSeqTelem
  /\ millis + TELEM_PERIOD_MS <= MaxNowTelem
  /\ millis' = millis + TELEM_PERIOD_MS
  /\ agg' = [pc |-> "take",
             rec |-> telemetry_build(seq, millis + TELEM_PERIOD_MS, s_stat,
                                     s_fused_alt)]
  /\ seq' = seq_next(seq)
  /\ UNCHANGED <<s_ctx, statics, s_stat, s_core_inited, prev_ms, in, out, mach,
                 pc, hist, rst>>
  /\ UNCHANGED <<fusvars, mon, runs, srvvars, senvars>>
  /\ UNCHANGED <<s_latest, s_telem_mutex, s_telem_q, getter, sd_task, tlog>>

\* if (s_telem_mutex) xSemaphoreTake(s_telem_mutex, portMAX_DELAY)
AggTake ==
  /\ agg.pc = "take"
  /\ s_telem_mutex = "free"
  /\ s_telem_mutex' = "agg"
  /\ agg' = [agg EXCEPT !.pc = "head"]
  /\ UNCHANGED <<s_latest, seq, s_telem_q, getter, sd_task, tlog, tel_others>>

\* s_latest = rec, first part
AggStoreHead ==
  /\ agg.pc = "head"
  /\ s_latest' = copy_head(s_latest, agg.rec)
  /\ agg' = [agg EXCEPT !.pc = "tail"]
  /\ UNCHANGED <<seq, s_telem_mutex, s_telem_q, getter, sd_task, tlog, tel_others>>

\* s_latest = rec, second part
AggStoreTail ==
  /\ agg.pc = "tail"
  /\ s_latest' = copy_tail(s_latest, agg.rec)
  /\ agg' = [agg EXCEPT !.pc = "give"]
  /\ tlog' = [tlog EXCEPT !.pubs = @ \cup {agg.rec}]
  /\ UNCHANGED <<seq, s_telem_mutex, s_telem_q, getter, sd_task, tel_others>>

\* xSemaphoreGive(s_telem_mutex)
AggGive ==
  /\ agg.pc = "give"
  /\ s_telem_mutex' = "free"
  /\ agg' = [agg EXCEPT !.pc = "send"]
  /\ UNCHANGED <<s_latest, seq, s_telem_q, getter, sd_task, tlog, tel_others>>

\* if (s_telem_q) xQueueSend(s_telem_q, &rec, 0); vTaskDelayUntil(...)
AggSend ==
  /\ agg.pc = "send"
  /\ s_telem_q' = IF s_telem_q.made
                  THEN [s_telem_q EXCEPT !.items = xQueueSend(@, agg.rec)]
                  ELSE s_telem_q
  /\ tlog' = [tlog EXCEPT !.sent = 1 - @,
                      !.full = s_telem_q.made
                               /\ Len(s_telem_q.items) = TelemQueueLen,
                      !.before = s_telem_q.items]
  /\ agg' = [agg EXCEPT !.pc = "build"]
  /\ UNCHANGED <<s_latest, seq, s_telem_mutex, getter, sd_task, tel_others>>

\* telemetryStartTasks: s_telem_q = xQueueCreate(...), after the aggregator task
\* has been created
QueueCreate ==
  /\ ~s_telem_q.made
  /\ s_telem_q' = [s_telem_q EXCEPT !.made = TRUE]
  /\ UNCHANGED <<s_latest, seq, s_telem_mutex, agg, getter, sd_task, tlog,
                 tel_others>>

\* task_sd_writer up to its loop: vTaskDelete(NULL) when SD.begin or SD.open
\* fails
SdBegin ==
  /\ sd_task = "init"
  /\ s_telem_q.made
  /\ sd_task' \in {"run", "gone"}
  /\ UNCHANGED <<s_latest, seq, s_telem_mutex, s_telem_q, agg, getter, tlog,
                 tel_others>>

\* task_sd_writer: one successful xQueueReceive
SdReceive ==
  /\ sd_task = "run"
  /\ s_telem_q.items # <<>>
  /\ s_telem_q' = [s_telem_q EXCEPT !.items = Tail(@)]
  /\ UNCHANGED <<s_latest, seq, s_telem_mutex, agg, getter, sd_task, tlog,
                 tel_others>>

\* telemetryGetLatest: if (s_telem_mutex) xSemaphoreTake(s_telem_mutex, ...)
GetTake ==
  /\ getter.pc = "idle"
  /\ \/ /\ s_telem_mutex = "null"
        /\ getter' = [getter EXCEPT !.pc = "head", !.locked = FALSE]
        /\ UNCHANGED s_telem_mutex
     \/ /\ s_telem_mutex = "free"
        /\ getter' = [getter EXCEPT !.pc = "head", !.locked = TRUE]
        /\ s_telem_mutex' = "get"
  /\ UNCHANGED <<s_latest, seq, s_telem_q, agg, sd_task, tlog, tel_others>>

\* out = s_latest, first part
GetCopyHead ==
  /\ getter.pc = "head"
  /\ getter' = [getter EXCEPT !.pc = "tail", !.out = copy_head(@, s_latest)]
  /\ UNCHANGED <<s_latest, seq, s_telem_mutex, s_telem_q, agg, sd_task, tlog,
                 tel_others>>

\* out = s_latest, second part
GetCopyTail ==
  /\ getter.pc = "tail"
  /\ getter' = [getter EXCEPT !.pc = "give", !.out = copy_tail(@, s_latest)]
  /\ UNCHANGED <<s_latest, seq, s_telem_mutex, s_telem_q, agg, sd_task, tlog,
                 tel_others>>

\* if (s_telem_mutex) xSemaphoreGive(s_telem_mutex); return true.  A caller that
\* did not take the mutex gives one it does not hold: the give fails or
\* releases it
GetGive ==
  /\ getter.pc = "give"
  /\ \/ /\ getter.locked
        /\ s_telem_mutex' = "free"
     \/ /\ ~getter.locked
        /\ s_telem_mutex' \in (IF s_telem_mutex = "null"
                               THEN {"null"} ELSE {s_telem_mutex, "free"})
  /\ getter' = [getter EXCEPT !.pc = "idle", !.locked = FALSE, !.n = 1 - @]
  /\ UNCHANGED <<s_latest, seq, s_telem_q, agg, sd_task, tlog, tel_others>>

NextTelem ==
  \/ AggCreate \/ AggBuild \/ AggTake \/ AggStoreHead \/ AggStoreTail
  \/ AggGive \/ AggSend
  \/ QueueCreate \/ SdBegin \/ SdReceive
  \/ GetTake \/ GetCopyHead \/ GetCopyTail \/ GetGive

SpecTelem == Init /\ [][NextTelem]_vars

\* ---- fc_task on the record of the aggregator ------------------------------------
\* what fc_task copies out of the record that telemetryGetLatest gives it: of
\* rec.fused the model's record carries agl_ready; the other inputs are held at
\* their pad values
RecInputs(rec) == [Pad EXCEPT !.agl_ready = rec.agl_ready]

FlowFcTick ==
  /\ FcTickAt(ServoDelta, RecInputs(s_latest), MaxNowServo)
  /\ UNCHANGED aux

NextFlow == TelemAgg \/ FlowFcTick \/ ServoFusionTop \/ ServoFusionBody

SpecFlow == Init /\ [][NextFlow]_vars

\* ---- the sensor producers: task_sensor_bmp1 and task_sensor_imu1 -----------------
\* the longest run of failed reads that the history counts
MaxMisses == 5
\* failed reads in a row that count as a persistent failure
PersistMisses == 3
ProducerAlts == {1000, 1010, 1020, 1030}

\* bmp1Get / imu1Get: out = s_latest; return s_latest.valid
bmp1Get == [out |-> bmp1_latest, ret |-> bmp1_latest.valid]
imu1Get == [out |-> imu1_latest, ret |-> imu1_latest.valid]

\* one iteration of task_sensor_bmp1: s_latest is written, with valid = true,
\* only when performReading() succeeds; a failed read is logged and nothing else
Bmp1Loop(ok, a) ==
  /\ bmp1_latest' = IF ok THEN [valid |-> TRUE, altitude_m |-> a] ELSE bmp1_latest
  /\ misses' = [misses EXCEPT !.bmp1 = IF ok THEN 0 ELSE Min(@ + 1, MaxMisses)]
  /\ UNCHANGED <<imu1_latest, lk, crcrec>>

\* one iteration of task_sensor_imu1: the driver calls return no status; the
\* record is built from the driver's buffers (last_altitude_m is renewed only on
\* a BARO event) and stored with valid = true whatever the bus did
Imu1Loop(ok, a) ==
  /\ imu1_latest' = [valid |-> TRUE,
                     altitude_m |-> IF ok THEN a ELSE imu1_latest.altitude_m]
  /\ misses' = [misses EXCEPT !.imu1 = IF ok THEN 0 ELSE Min(@ + 1, MaxMisses)]
  /\ UNCHANGED <<bmp1_latest, lk, crcrec>>

Bmp1Tick ==
  /\ \E ok \in BOOLEAN, a \in ProducerAlts : Bmp1Loop(ok, a)
  /\ UNCHANGED <<fcvars, fusvars, mon, runs, srvvars, s_latest, seq, tqvars>>

Imu1Tick ==
  /\ \E ok \in BOOLEAN, a \in ProducerAlts : Imu1Loop(ok, a)
  /\ UNCHANGED <<fcvars, fusvars, mon, runs, srvvars, s_latest, seq, tqvars>>

NextProducers == Bmp1Tick \/ Imu1Tick

SpecProducers == Init /\ [][NextProducers]_vars

\* ---- properties -----------------------------------------------------------
InTrail(st) == \E k \in 1..Len(trail) : trail[k] = st
Chain == <<FC_PREFLIGHT, FC_BOOST, FC_POST_BURN_HOLD, FC_WINDOW, FC_DEPLOYED,
           FC_RETRACTING, FC_LOCKED>>
Mission == {Chain[k] : k \in 1..Len(Chain)}

C2_DeployOnlyThroughGates ==
  [][ (s_ctx'.state = FC_DEPLOYED /\ s_ctx.state # FC_DEPLOYED) =>
        /\ s_ctx.state = FC_WINDOW
        /\ in'.agl_fused_m # NaN /\ in'.agl_fused_m >= FC_MIN_DEPLOY_AGL_M
        /\ in'.apogee_agl_m # NaN
        /\ in'.apogee_agl_m >= FC_TARGET_APOGEE_AGL_M + FC_APOGEE_HIGH_MARGIN_M
        /\ FCF_SENS_IMU1_OK \in s_ctx'.flags
        /\ FCF_SENS_BMP1_OK \in s_ctx'.flags
        /\ FCF_TILT_OK \in s_ctx'.flags
        /\ FCF_MACH_OK \in s_ctx'.flags ]_vars

W_C2 ==
  /\ s_ctx.state = FC_DEPLOYED /\ s_ctx.t_deploy_ms = millis
  /\ trail[Len(trail) - 1] = FC_WINDOW

C4_TiltLatchAbsorbing ==
  /\ [](s_ctx.tilt_latched = 1 =>
          /\ FCF_TILT_LATCH \in s_ctx.flags /\ FCF_TILT_LATCH \in out.flags
          /\ FCF_TILT_OK \notin s_ctx.flags /\ FCF_TILT_OK \notin out.flags
          /\ out.airbrake_cmd_deg = 0 /\ s_stat.airbrake_cmd_deg = 0)
  /\ [][ /\ (s_ctx.tilt_latched = 1 => s_ctx'.tilt_latched = 1)
         /\ (s_ctx.tilt_latched = 0 /\ s_ctx'.tilt_latched = 1) =>
              /\ in'.tilt_deg # NaN /\ in'.tilt_deg >= FC_TILT_ABORT_DEG
              /\ s_ctx'.tilt_bad_acc_ms >= FC_TILT_ABORT_DWELL_MS
         /\ (s_ctx'.tilt_bad_acc_ms >= FC_TILT_ABORT_DWELL_MS
               => s_ctx'.tilt_latched = 1) ]_vars

W_C4 ==
  /\ s_ctx.tilt_latched = 1 /\ latch_age = 3
  /\ InTrail(FC_DEPLOYED) /\ in.tilt_deg < FC_TILT_ABORT_DEG /\ in.tilt_deg # NaN

\* C5: the state is DEPLOYED only after liftoff and burnout have latched and
\* the FC has gone PREFLIGHT, BOOST, POST_BURN_HOLD (for at least
\* FC_BURNOUT_HOLD_MS of clock time), WINDOW, with no state skipped; the
\* command is 0 throughout PREFLIGHT, BOOST and POST_BURN_HOLD
C5_DeployOnlyAfterChain ==
  /\ s_ctx.state = FC_DEPLOYED =>
       /\ trail = SubSeq(Chain, 1, 5)
       /\ hold_ms >= FC_BURNOUT_HOLD_MS
       /\ statics.liftoff_latched /\ statics.burnout_latched
       /\ {FCF_LIFTOFF_DET, FCF_BURNOUT_DET} \subseteq s_ctx.flags
  /\ \A k \in 1..5 : s_ctx.state = Chain[k] => trail = SubSeq(Chain, 1, k)
  /\ s_ctx.state \in {FC_PREFLIGHT, FC_BOOST, FC_POST_BURN_HOLD} =>
       out.airbrake_cmd_deg = 0 /\ s_stat.airbrake_cmd_deg = 0

W_C5 ==
  /\ s_ctx.state = FC_DEPLOYED /\ hold_ms >= FC_BURNOUT_HOLD_MS
  /\ out.airbrake_cmd_deg = FC_DEPLOY_CMD_DEG

\* C6: from one tick to the next the state either stays, or moves forward in
\* the order PREFLIGHT < BOOST < POST_BURN_HOLD < WINDOW < DEPLOYED <
\* RETRACTING < LOCKED, or jumps to ABORT_LOCKOUT
C6_MonotoneProgress ==
  [][ s_ctx'.state # s_ctx.state =>
        \/ s_ctx'.state = FC_ABORT_LOCKOUT /\ s_ctx.state \in Mission
        \/ /\ s_ctx.state \in Mission /\ s_ctx'.state \in Mission
           /\ s_ctx'.state > s_ctx.state ]_vars

W_C6 == trail = Chain

\* C7: LOCKED and ABORT_LOCKOUT are absorbing for every input
C7_TerminalAbsorbing ==
  [][ s_ctx.state \in {FC_LOCKED, FC_ABORT_LOCKOUT} =>
        s_ctx'.state = s_ctx.state ]_vars

W_C7 ==
  /\ s_ctx.state = FC_LOCKED /\ s_ctx.t_state_ms < millis
  /\ s_ctx.tilt_latched = 1

\* C8: a tick that starts in DEPLOYED ends in ABORT_LOCKOUT if the tilt latch
\* is set, else in RETRACTING if t_to_apogee_s <= FC_RETRACT_BEFORE_APOGEE_S or
\* t_since_launch_s exceeds the expected-TTA timeout, else in DEPLOYED; the
\* timeout is armed whenever the FC is DEPLOYED, so the FC is never found
\* DEPLOYED over a whole tick later than the timeout; the tick after
\* RETRACTING ends in LOCKED
C8_RetractThenLock ==
  /\ [](s_ctx.state = FC_DEPLOYED =>
          /\ s_ctx.t_launch_ms > 0
          /\ (s_ctx.t_deploy_ms < millis => out.t_since_launch_s <= TtaTimeoutMs))
  /\ [][ /\ s_ctx.state = FC_DEPLOYED =>
              s_ctx'.state =
                (IF s_ctx'.tilt_latched = 1 THEN FC_ABORT_LOCKOUT
                 ELSE IF \/ (in'.t_apogee_s # NaN
                             /\ in'.t_apogee_s <= FC_RETRACT_BEFORE_APOGEE_S)
                         \/ out'.t_since_launch_s > TtaTimeoutMs
                      THEN FC_RETRACTING ELSE FC_DEPLOYED)
         /\ s_ctx.state = FC_RETRACTING => s_ctx'.state = FC_LOCKED ]_vars

W_C8 ==
  /\ s_ctx.state = FC_RETRACTING /\ in.t_apogee_s > FC_RETRACT_BEFORE_APOGEE_S
  /\ out.t_since_launch_s > TtaTimeoutMs

C10_Claim ==
  rst = "done" =>
    /\ s_core_inited
    /\ s_stat.state \in Mission \cup {FC_ABORT_LOCKOUT}

\* C11 as claimed: once a loop iteration has started after a soft reset the
\* liftoff and burnout one-shots, the Mach-gate state and the baro-agreement
\* accumulator are at their power-on values, and a liftoff condition held for
\* the full dwell after the reset sets FCF_LIFTOFF_DET and stamps t_launch_ms
C11_Claim ==
  /\ (rst = "tick" /\ pc = "flags") => statics = StaticsInit
  /\ (rst = "done" /\ pc = "top" /\ liftoff_cond(in)
        /\ in.dt_ms >= FC_LIFTOFF_DWELL_MS)
       => (FCF_LIFTOFF_DET \in s_ctx.flags /\ s_ctx.t_launch_ms > 0)

\* C12: the fusion tick that finds a reset request pending clears, before
\* anything else, agl_ready, both baselines, the vz filter, the accel
\* integrator, the azimuth smoothing and unwrap state and the SoS references,
\* and restarts the warm-up timer; agl_ready (in the statics and in the
\* published snapshot) is not true again, and no baseline is set, before
\* ZERO_AGL_AFTER_MS has elapsed from that tick; once ready again, each
\* baseline is captured from the first valid raw altitude
C12_FusionResetRestartsWarmup ==
  /\ [][ (fpc = "top" /\ s_reset_req /\ fpc' = "body") =>
           /\ ~s_reset_req'
           /\ ~fus'.agl_ready /\ ~s_fused_alt'.agl_ready
           /\ isnan(fus'.base_bmp1_m) /\ isnan(fus'.base_imu1_m)
           /\ isnan(fus'.vz_filt) /\ ~fus'.have_prev_alt /\ fus'.vz_acc = 0
           /\ ~fus'.have_tilt_az /\ ~fus'.have_tilt_az_acc
           /\ fus'.tilt_az_unwrapped = 0 /\ fus'.tilt_az_prev_deg = 0
           /\ ~fus'.have_sos_refs /\ isnan(fus'.sos_ground_mps)
           /\ fus'.sos_min_mps = SOS_MIN_FLOOR_MPS
           /\ fus'.agl_arm_ms = 0 ]_vars
  /\ []((freset_ms > 0 /\ millis < freset_ms + ZERO_AGL_AFTER_MS) =>
          /\ ~fus.agl_ready /\ ~s_fused_alt.agl_ready
          /\ isnan(fus.base_bmp1_m) /\ isnan(fus.base_imu1_m))
  /\ [][ (fpc = "body" /\ fpc' = "top" /\ fus'.agl_ready) =>
           /\ (isnan(fus.base_bmp1_m) /\ ~isnan(s_fused_alt'.bmp1_alt_m))
                => fus'.base_bmp1_m = s_fused_alt'.bmp1_alt_m
           /\ (isnan(fus.base_imu1_m) /\ ~isnan(s_fused_alt'.imu1_alt_m))
                => fus'.base_imu1_m = s_fused_alt'.imu1_alt_m ]_vars

W_C12 ==
  /\ freset_ms > 0 /\ millis >= freset_ms + ZERO_AGL_AFTER_MS
  /\ fus.agl_ready /\ s_fused_alt.agl_ready
  /\ fus.base_bmp1_m = 1010 /\ fus.base_imu1_m = 1012

\* C13 as claimed: s_ctx and s_stat are written by the FC task alone: while a
\* loop iteration of fc_task is under way (between its read of the inputs and
\* its publication) no step of another task changes s_ctx or s_stat
C13_Claim ==
  [][ (pc # "top" /\ pc' = pc) => (s_ctx' = s_ctx /\ s_stat' = s_stat) ]_vars

\* C14: a soft-reset command (fusionSoftReset, then fcSoftReset) issued right
\* after a completed one, with no FC step and no fusion step since the first
\* began, changes nothing: the fusion state and request word, the published
\* FusedAlt, the FC context, its statics and locals and the published FcStatus
\* are after each call of the second command what they were before it
C14_ResetIdempotent ==
  [][ (mon.n >= 1 /\ mon'.n >= 1 /\ mon' # mon) =>
        /\ <<s_ctx, statics, s_stat, s_core_inited, millis, prev_ms, in, out,
             mach, pc>>' =
           <<s_ctx, statics, s_stat, s_core_inited, millis, prev_ms, in, out,
             mach, pc>>
        /\ <<s_reset_req, fus, s_fused_alt, fpc>>' =
           <<s_reset_req, fus, s_fused_alt, fpc>> ]_vars

W_C14 ==
  /\ mon.n = 2 /\ mon.pc = "idle"
  /\ InTrail(FC_WINDOW) /\ fus.have_sos_refs
  /\ s_reset_req /\ s_ctx = ZeroCtx /\ s_stat.state = FC_SAFE

\* one sensor's debounce over a step: valid is the sample of the step, ok, good
\* and bad the flag and the accumulators before (0) and after (1) it
Debounced(valid, dt, ok0, good0, bad0, ok1, good1, bad1) ==
  /\ valid => /\ good1 = Min(good0 + dt, FC_SENSOR_RECOVERY_MS)
              /\ bad1 = 0
  /\ ~valid => /\ bad1 = Min(bad0 + dt, FC_SENSOR_INVALID_MS)
               /\ good1 = 0
  /\ (ok0 = 0 /\ ok1 = 1) <=> (ok0 = 0 /\ valid /\ good1 >= FC_SENSOR_RECOVERY_MS)
  /\ (ok0 = 1 /\ ok1 = 0) <=> (ok0 = 1 /\ ~valid /\ bad1 >= FC_SENSOR_INVALID_MS)

\* C15: each of IMU-A, barometer and IMU-B starts not-OK; a valid sample adds
\* dt to the good accumulator and clears the bad one, an invalid sample the
\* reverse; the OK flag rises exactly on the tick where good reaches
\* FC_SENSOR_RECOVERY_MS and falls exactly on the tick where bad reaches
\* FC_SENSOR_INVALID_MS; after every fc_step the FCF_SENS_*_OK bit equals the
\* debounced flag
C15_SensorDebounce ==
  /\ [](/\ (FCF_SENS_IMU1_OK \in s_ctx.flags) <=> (s_ctx.imu1_ok = 1)
        /\ (FCF_SENS_BMP1_OK \in s_ctx.flags) <=> (s_ctx.bmp1_ok = 1)
        /\ (FCF_SENS_IMU2_OK \in s_ctx.flags) <=> (s_ctx.imu2_ok = 1)
        /\ s_stat.stamp_ms = 0 =>
             (s_ctx.imu1_ok = 0 /\ s_ctx.bmp1_ok = 0 /\ s_ctx.imu2_ok = 0))
  /\ [][ /\ Debounced(in'.imu1_valid, in'.dt_ms,
                       s_ctx.imu1_ok, s_ctx.imu1_good_acc, s_ctx.imu1_bad_acc,
                       s_ctx'.imu1_ok, s_ctx'.imu1_good_acc, s_ctx'.imu1_bad_acc)
         /\ Debounced(in'.bmp1_valid, in'.dt_ms,
                       s_ctx.bmp1_ok, s_ctx.bmp1_good_acc, s_ctx.bmp1_bad_acc,
                       s_ctx'.bmp1_ok, s_ctx'.bmp1_good_acc, s_ctx'.bmp1_bad_acc)
         /\ Debounced(in'.imu2_valid, in'.dt_ms,
                       s_ctx.imu2_ok, s_ctx.imu2_good_acc, s_ctx.imu2_bad_acc,
                       s_ctx'.imu2_ok, s_ctx'.imu2_good_acc, s_ctx'.imu2_bad_acc) ]_vars

\* IMU-A has recovered, which took FC_SENSOR_RECOVERY_MS of valid samples, and
\* one invalid sample shorter than FC_SENSOR_INVALID_MS now stands against it:
\* the flag and the bit are still OK
W_C15 ==
  /\ s_ctx.imu1_ok = 1 /\ s_ctx.imu1_good_acc = 0
  /\ s_ctx.imu1_bad_acc > 0 /\ s_ctx.imu1_bad_acc < FC_SENSOR_INVALID_MS
  /\ ~in.imu1_valid
  /\ FCF_SENS_IMU1_OK \in s_stat.flags
  /\ s_ctx.bmp1_ok = 1 /\ s_ctx.imu2_ok = 1

\* C16: FCF_MACH_OK turns ON only on a tick that ends a run of consecutive
\* ticks, totalling at least FC_MACH_DWELL_MS, on every one of which
\* mach < FC_MACH_MAX_FOR_DEPLOY; it is OFF after the very tick on which
\* mach > FC_MACH_MAX_FOR_DEPLOY + FC_MACH_HYST
C16_Claim ==
  /\ [][ (FCF_MACH_OK \notin s_ctx.flags /\ FCF_MACH_OK \in s_ctx'.flags)
            => runs'.mach >= FC_MACH_DWELL_MS ]_vars
  /\ [][ (~isnan(mach') /\ mach' > FC_MACH_MAX_FOR_DEPLOY + FC_MACH_HYST)
            => FCF_MACH_OK \notin s_ctx'.flags ]_vars

AllFlags ==
  {FCF_SENS_IMU1_OK, FCF_SENS_BMP1_OK, FCF_SENS_IMU2_OK, FCF_BARO_AGREE,
   FCF_MACH_OK, FCF_TILT_OK, FCF_TILT_LATCH, FCF_LIFTOFF_DET, FCF_BURNOUT_DET}

\* the step sets the bit b
Sets(b) == b \notin s_ctx.flags /\ b \in s_ctx'.flags

\* the step clears the bit b
Clears(b) == b \in s_ctx.flags /\ b \notin s_ctx'.flags

\* the dwell that stands behind the bit b being set has been completed by the
\* step
SetDwell(b) ==
  CASE b = FCF_SENS_IMU1_OK -> s_ctx'.imu1_good_acc >= FC_SENSOR_RECOVERY_MS
    [] b = FCF_SENS_BMP1_OK -> s_ctx'.bmp1_good_acc >= FC_SENSOR_RECOVERY_MS
    [] b = FCF_SENS_IMU2_OK -> s_ctx'.imu2_good_acc >= FC_SENSOR_RECOVERY_MS
    [] b = FCF_BARO_AGREE   -> statics'.agree_acc >= FC_BARO_AGREE_MS
    [] b = FCF_MACH_OK      -> s_ctx'.mach_ok_acc_ms >= FC_MACH_DWELL_MS
    [] b = FCF_TILT_LATCH   -> s_ctx'.tilt_bad_acc_ms >= FC_TILT_ABORT_DWELL_MS
    [] b = FCF_LIFTOFF_DET  -> s_ctx'.liftoff_acc_ms >= FC_LIFTOFF_DWELL_MS
    [] b = FCF_BURNOUT_DET  -> s_ctx'.burnout_acc_ms >= FC_BURNOUT_DWELL_MS
    [] OTHER                -> FALSE

\* the dwell that stands behind the bit b being cleared has been completed by
\* the step: the sensor bits have one, FCF_TILT_OK has the tilt latch, the
\* other bits have none
ClearDwell(b) ==
  CASE b = FCF_SENS_IMU1_OK -> s_ctx'.imu1_bad_acc >= FC_SENSOR_INVALID_MS
    [] b = FCF_SENS_BMP1_OK -> s_ctx'.bmp1_bad_acc >= FC_SENSOR_INVALID_MS
    [] b = FCF_SENS_IMU2_OK -> s_ctx'.imu2_bad_acc >= FC_SENSOR_INVALID_MS
    [] b = FCF_TILT_OK      -> /\ s_ctx.tilt_latched = 0 /\ s_ctx'.tilt_latched = 1
                               /\ s_ctx'.tilt_bad_acc_ms >= FC_TILT_ABORT_DWELL_MS
    [] OTHER                -> FALSE

\* C17 as claimed: every flag bit changes only as the result of a debounced
\* condition; no fc_step sets or clears a bit from the current sample alone
C17_Claim ==
  [][ \A b \in AllFlags : /\ Sets(b) => SetDwell(b)
                          /\ Clears(b) => ClearDwell(b) ]_vars

\* C17 as the code has it: every bit but FCF_TILT_OK is set only on a tick
\* that completes its dwell, and the sensor bits are cleared only on a tick
\* that completes the invalid dwell; FCF_TILT_OK is, after every fc_step,
\* "not latched and the current tilt sample is a number <= FC_TILT_ABORT_DEG";
\* FCF_MACH_OK is cleared only by a current sample with mach above
\* max + hyst and FCF_BARO_AGREE only by a current pair of valid altitudes
\* more than FC_BARO_AGREE_M apart; latch, liftoff and burnout bits are never
\* cleared
C17_FlagsDebouncedButTiltOk ==
  [][ /\ \A b \in AllFlags \ {FCF_TILT_OK} : Sets(b) => SetDwell(b)
      /\ \A b \in {FCF_SENS_IMU1_OK, FCF_SENS_BMP1_OK, FCF_SENS_IMU2_OK} :
            Clears(b) => ClearDwell(b)
      /\ (FCF_TILT_OK \in s_ctx'.flags) <=>
            (s_ctx'.tilt_latched = 0 /\ ~isnan(in'.tilt_deg)
               /\ in'.tilt_deg <= FC_TILT_ABORT_DEG)
      /\ Clears(FCF_MACH_OK) =>
            (~isnan(mach') /\ mach' > FC_MACH_MAX_FOR_DEPLOY + FC_MACH_HYST)
      /\ Clears(FCF_BARO_AGREE) =>
            (baro_both(in') /\ baro_diff(in') > FC_BARO_AGREE_M)
      /\ \A b \in {FCF_TILT_LATCH, FCF_LIFTOFF_DET, FCF_BURNOUT_DET} : ~Clears(b) ]_vars

\* one sample of 45 degrees, shorter than the abort dwell, has cleared
\* FCF_TILT_OK with the latch open, while the debounced bits stay set
W_C17 ==
  /\ FCF_TILT_OK \notin s_stat.flags /\ s_ctx.tilt_latched = 0
  /\ in.tilt_deg = 45 /\ s_ctx.tilt_bad_acc_ms = in.dt_ms
  /\ s_ctx.tilt_bad_acc_ms < FC_TILT_ABORT_DWELL_MS
  /\ {FCF_SENS_IMU1_OK, FCF_MACH_OK, FCF_BARO_AGREE} \subseteq s_stat.flags

\* C18: liftoff latches on the first tick at which the OR of the three liftoff
\* conditions has held on consecutive ticks accumulating FC_LIFTOFF_DWELL_MS
\* (a tick on which none holds restarts the count); on that tick t_launch_ms
\* is the tick's now_ms and FCF_LIFTOFF_DET is set, and neither changes
\* afterwards; burnout is evaluated only once liftoff has latched, and once
\* burnout has latched FCF_BURNOUT_DET and t_burnout_ms never change
C18_LiftoffBurnoutOneShot ==
  /\ [](FCF_LIFTOFF_DET \notin s_ctx.flags =>
          /\ s_ctx.t_launch_ms = 0 /\ s_ctx.burnout_acc_ms = 0
          /\ FCF_BURNOUT_DET \notin s_ctx.flags /\ s_ctx.t_burnout_ms = 0)
  /\ [][ (FCF_LIFTOFF_DET \notin s_ctx.flags) =>
           /\ (FCF_LIFTOFF_DET \in s_ctx'.flags) <=> (runs'.lift >= FC_LIFTOFF_DWELL_MS)
           /\ FCF_LIFTOFF_DET \in s_ctx'.flags => s_ctx'.t_launch_ms = in'.now_ms ]_vars
  /\ [][ (FCF_LIFTOFF_DET \in s_ctx.flags) =>
           /\ FCF_LIFTOFF_DET \in s_ctx'.flags
           /\ s_ctx'.t_launch_ms = s_ctx.t_launch_ms ]_vars
  /\ [][ Sets(FCF_BURNOUT_DET) => s_ctx'.t_burnout_ms = in'.now_ms ]_vars
  /\ [][ (FCF_BURNOUT_DET \in s_ctx.flags) =>
           /\ FCF_BURNOUT_DET \in s_ctx'.flags
           /\ s_ctx'.t_burnout_ms = s_ctx.t_burnout_ms ]_vars

\* liftoff latched after an interrupted run, burnout latched later, and the
\* ticks go on with a liftoff condition holding again
W_C18 ==
  /\ {FCF_LIFTOFF_DET, FCF_BURNOUT_DET} \subseteq s_stat.flags
  /\ s_ctx.t_launch_ms > BootMs + FC_LIFTOFF_DWELL_MS + 100
  /\ s_ctx.t_burnout_ms > s_ctx.t_launch_ms
  /\ in.now_ms > s_ctx.t_burnout_ms
  /\ liftoff_cond(in) /\ ~burnout_cond(in)

\* both raw altitudes of the step's inputs are finite and more than
\* FC_BARO_AGREE_M apart
FiniteApart(i) ==
  /\ ~isnan(i.bmp1_altitude_m) /\ ~isnan(i.imu1_altitude_m)
  /\ baro_diff(i) > FC_BARO_AGREE_M

\* C19 as claimed: FCF_BARO_AGREE becomes set only on a tick that ends a run of
\* ticks, totalling at least FC_BARO_AGREE_MS, on each of which both raw
\* altitudes were valid, finite and within FC_BARO_AGREE_M; it is cleared on
\* the first tick on which both are finite and more than FC_BARO_AGREE_M apart
C19_Claim ==
  /\ [][ Sets(FCF_BARO_AGREE) => runs'.agree >= FC_BARO_AGREE_MS ]_vars
  /\ [][ FiniteApart(in') => FCF_BARO_AGREE \notin s_ctx'.flags ]_vars

\* C19 as the code has it: a tick on which either altitude is invalid or not a
\* number leaves the bit and the time gathered so far as they are; over the
\* other ticks the bit becomes set exactly when the agreement has lasted
\* FC_BARO_AGREE_MS since the last disagreement, and is cleared exactly on a
\* tick with both altitudes valid, finite and more than FC_BARO_AGREE_M apart
C19_BaroAgreeOverValidTicks ==
  /\ [][ ~baro_both(in') =>
            (FCF_BARO_AGREE \in s_ctx'.flags <=> FCF_BARO_AGREE \in s_ctx.flags) ]_vars
  /\ [][ (FCF_BARO_AGREE \notin s_ctx.flags) =>
            (FCF_BARO_AGREE \in s_ctx'.flags <=>
               (baro_both(in') /\ runs'.held >= FC_BARO_AGREE_MS)) ]_vars
  /\ [][ (FCF_BARO_AGREE \in s_ctx.flags) =>
            (FCF_BARO_AGREE \notin s_ctx'.flags <=>
               (baro_both(in') /\ FiniteApart(in'))) ]_vars

\* the bit is set and stays set on a tick whose barometer sample is invalid,
\* its altitude 0 m against 1000 m of the other
W_C19 ==
  /\ FCF_BARO_AGREE \in s_stat.flags
  /\ ~in.bmp1_valid /\ FiniteApart(in)
  /\ runs.agree = 0 /\ runs.held >= FC_BARO_AGREE_MS

\* the step is one iteration of task_servo_ctrl
ServoTicked == sv'.n # sv.n

\* C20: on every servo tick on which the latest record's timestamp_ms has not
\* advanced since the previous tick, or no record has been published yet, the
\* servo is commanded closed and the open/close decision is skipped; the
\* servo then stays closed until a record with a new timestamp arrives
C20_StallWatchdogCloses ==
  /\ [][ (ServoTicked /\ (s_latest.timestamp_ms = 0 \/ s_latest.timestamp_ms = sv.seen))
           => /\ ~s_open' /\ s_cmd_us' = SERVO_MIN_US
              /\ sv'.skipped /\ last_stamp' = last_stamp ]_vars
  /\ [][ (ServoTicked /\ s_latest.timestamp_ms # 0 /\ s_latest.timestamp_ms # sv.seen)
           => /\ ~sv'.skipped
              /\ s_open' = should_open(s_latest) ]_vars
  /\ [](sv.skipped => (~s_open /\ s_cmd_us = SERVO_MIN_US))

\* the record says "open" and the servo had opened on it; no newer record has
\* come and the watchdog has closed the servo
W_C20 ==
  /\ should_open(s_latest) /\ s_latest.timestamp_ms = last_stamp
  /\ sv.skipped /\ ~s_open /\ s_cmd_us = SERVO_MIN_US

\* the servo tick reads a record whose timestamp is new
FreshTick ==
  ServoTicked /\ s_latest.timestamp_ms # 0 /\ s_latest.timestamp_ms # sv.seen

\* the conditions under which the servo is to be open, on the record rec
OpenCond(rec) ==
  /\ rec.fc_state = FC_WINDOW
  /\ rec.sens_imu1_ok = 1 /\ rec.sens_bmp1_ok = 1 /\ rec.sens_imu2_ok = 1
  /\ rec.agl_ready = 1
  /\ rec.tilt_latch = 0
  /\ rec.mach_cons # NaN /\ rec.mach_cons < 500
  /\ ~(rec.fc_t_to_apogee_s # NaN /\ rec.fc_t_to_apogee_s <= 1)

Terminal == {FC_ABORT_LOCKOUT, FC_LOCKED}

C23_Claim ==
  (getter.pc \in {"give", "idle"}) => getter.out \in {ZeroRec} \cup tlog.pubs

\* C24: when the aggregator's xQueueSend finds the sink queue full, the oldest
\* queued record is dropped and the record of the current tick is enqueued
C24_Claim ==
  [][ (tlog'.sent # tlog.sent /\ s_telem_q.made
         /\ Len(s_telem_q.items) = TelemQueueLen)
      => s_telem_q'.items = Append(Tail(s_telem_q.items), agg.rec) ]_vars

\* C25: every aggregator tick stores its record in s_latest, with a sequence
\* number one greater than that of the tick before (0 on the first), before it
\* touches the sink queue; the queue send returns at once whatever the queue
\* holds and whatever the SD writer does, and leaves s_latest alone
C25_LiveRecordEveryTick ==
  /\ []((agg.pc \in {"give", "send", "build"} /\ seq > 0)
          => (s_latest = agg.rec /\ s_latest.seq = seq - 1))
  /\ [][ (tlog'.pubs # tlog.pubs) => s_latest'.seq = Cardinality(tlog.pubs) ]_vars
  /\ [](agg.pc = "send" => ENABLED AggSend)
  /\ [][ (tlog'.sent # tlog.sent) => (s_latest' = s_latest /\ agg'.pc = "build") ]_vars

W_C25 ==
  /\ tlog.full
  /\ sd_task = "gone"
  /\ Len(s_telem_q.items) = TelemQueueLen
  /\ agg.pc = "build"
  /\ s_latest.seq = 2
  /\ s_latest \notin {s_telem_q.items[k] : k \in 1..Len(s_telem_q.items)}

\* a step of fusion_task through its loop body
FusionBodyStep == fpc = "body" /\ fpc' = "top"

FusResetApplied == fpc = "top" /\ s_reset_req /\ fpc' = "body"

\* C27: a captured baseline keeps its value on every later step of fusion_task,
\* whatever the readings and their validity, except where a soft reset is
\* applied
C27_BaselineImmutable ==
  /\ [][ (~isnan(fus.base_bmp1_m) /\ ~FusResetApplied)
          => fus'.base_bmp1_m = fus.base_bmp1_m ]_vars
  /\ [][ (~isnan(fus.base_imu1_m) /\ ~FusResetApplied)
          => fus'.base_imu1_m = fus.base_imu1_m ]_vars

W_C27 ==
  /\ fpc = "top"
  /\ fus.base_bmp1_m = 1010
  /\ s_fused_alt.bmp1_alt_m = 1020
  /\ s_fused_alt.agl_bmp1_m = 10
  /\ fus.base_imu1_m = 1012
  /\ s_fused_alt.imu1_alt_m = 1020

\* C28: in every snapshot that fusion_task has written to s_fused_alt, sos_min is
\* at least SOS_MIN_FLOOR_MPS and mach_cons is finite exactly when vz_fused is
\* finite and the SoS references are latched (have_sos_refs), else NaN
C28_Claim ==
  (s_fused_alt.stamp_ms # 0) =>
     /\ s_fused_alt.sos_min_mps >= SOS_MIN_FLOOR_MPS
     /\ ~isnan(s_fused_alt.mach_cons)
          <=> (~isnan(s_fused_alt.vz_fused_mps) /\ fus.have_sos_refs)

\* C29: a missed refresh leaves the reading and its valid flag as they were,
\* and after PersistMisses failed reads in a row the producer has cleared valid,
\* so that bmp1Get and imu1Get report the reading as invalid
C29_Claim ==
  /\ [][ (misses'.bmp1 = 1) => bmp1_latest' = bmp1_latest ]_vars
  /\ [][ (misses'.imu1 = 1) => imu1_latest'.altitude_m = imu1_latest.altitude_m ]_vars
  /\ []((misses.bmp1 >= PersistMisses) => ~bmp1Get.ret)
  /\ []((misses.imu1 >= PersistMisses) => ~imu1Get.ret)

\* a tick of fc_task
FcTicked == prev_ms' # prev_ms

\* C30: fc_task takes its inputs from the fusion snapshot: on every tick the
\* agl_ready it feeds to fc_step is the one of the current FusedAlt, whatever
\* the aggregator has or has not done
C30_Claim ==
  [][ FcTicked => in'.agl_ready = (IF s_fused_alt.agl_ready THEN 1 ELSE 0) ]_vars

\* C34: fc_init leaves the FC in PREFLIGHT and no sequence of fc_step calls
\* from there puts it in ARMED_WAIT or in SAFE
C34_NeverArmedWaitOrSafe ==
  /\ fc_init.state = FC_PREFLIGHT
  /\ trail[1] = FC_PREFLIGHT
  /\ s_ctx.state \notin {FC_ARMED_WAIT, FC_SAFE}
  /\ \A k \in 1..Len(trail) : trail[k] \notin {FC_ARMED_WAIT, FC_SAFE}

W_C34 ==
  /\ s_ctx.state = FC_LOCKED
  /\ InTrail(FC_BOOST)
  /\ InTrail(FC_DEPLOYED)
  /\ InTrail(FC_RETRACTING)
  /\ out.state = FC_LOCKED

\* C37: in every state reached by fc_step calls from fc_init, a state from BOOST
\* to LOCKED has FCF_LIFTOFF_DET set, a state from POST_BURN_HOLD to LOCKED has
\* FCF_BURNOUT_DET set, FCF_BURNOUT_DET implies FCF_LIFTOFF_DET, and
\* ABORT_LOCKOUT has FCF_TILT_LATCH set and FCF_TILT_OK clear
C37_StateImpliesFlags ==
  /\ s_ctx.state \in {FC_BOOST, FC_POST_BURN_HOLD, FC_WINDOW, FC_DEPLOYED,
                       FC_RETRACTING, FC_LOCKED}
       => FCF_LIFTOFF_DET \in s_ctx.flags
  /\ s_ctx.state \in {FC_POST_BURN_HOLD, FC_WINDOW, FC_DEPLOYED, FC_RETRACTING,
                       FC_LOCKED}
       => FCF_BURNOUT_DET \in s_ctx.flags
  /\ FCF_BURNOUT_DET \in s_ctx.flags => FCF_LIFTOFF_DET \in s_ctx.flags
  /\ s_ctx.state = FC_ABORT_LOCKOUT
       => (FCF_TILT_LATCH \in s_ctx.flags /\ FCF_TILT_OK \notin s_ctx.flags)

W_C37 ==
  /\ s_ctx.state = FC_ABORT_LOCKOUT
  /\ InTrail(FC_DEPLOYED)
  /\ FCF_TILT_LATCH \in s_ctx.flags
  /\ FCF_BURNOUT_DET \in s_ctx.flags
  /\ FCF_LIFTOFF_DET \in s_ctx.flags

\* C39: after every fc_step on which neither vz_fused_mps nor vz_mps is finite
\* (the Mach output is NaN) FCF_MACH_OK is clear
C39_Claim ==
  [][ (FcTicked /\ isnan(in'.vz_fused_mps) /\ isnan(in'.vz_mps))
        => (isnan(mach') /\ FCF_MACH_OK \notin s_ctx'.flags) ]_vars

\* ---------------------------------------------------------------------------
\* Dwell times against the tick period: fc_task passes dt_ms = now - prev
\* clamped to 1..1000, and every accumulator of fc_core grows by dt_ms.
\* The deltas are a regular tick and a stalled one that the clamp cuts to 1000.
MaxNowDwell == 2200
DwellDeltas == {250, 1600}
DwellSamples ==
  {Pad,
   [Pad EXCEPT !.tilt_deg = 45],
   [Pad EXCEPT !.vz_fused_mps = 200, !.vz_mps = 200, !.az_imu1_mps2 = 40,
               !.imu1_altitude_m = 1020],
   [Pad EXCEPT !.imu1_valid = FALSE, !.imu1_altitude_m = 0]}

FcTickDwell == FcTickRuns(DwellDeltas, DwellSamples, MaxNowDwell)

SpecDwell == Init /\ [][FcTickDwell]_vars

\* the accumulator behind the dwell-gated decision that sets the bit b
SetAcc(c, st, b) ==
  CASE b = FCF_SENS_IMU1_OK -> c.imu1_good_acc
    [] b = FCF_SENS_BMP1_OK -> c.bmp1_good_acc
    [] b = FCF_SENS_IMU2_OK -> c.imu2_good_acc
    [] b = FCF_BARO_AGREE   -> st.agree_acc
    [] b = FCF_MACH_OK      -> c.mach_ok_acc_ms
    [] b = FCF_TILT_LATCH   -> c.tilt_bad_acc_ms
    [] b = FCF_LIFTOFF_DET  -> c.liftoff_acc_ms
    [] b = FCF_BURNOUT_DET  -> c.burnout_acc_ms

\* the accumulator behind a sensor bit being cleared
ClearAcc(c, b) ==
  CASE b = FCF_SENS_IMU1_OK -> c.imu1_bad_acc
    [] b = FCF_SENS_BMP1_OK -> c.bmp1_bad_acc
    [] b = FCF_SENS_IMU2_OK -> c.imu2_bad_acc

SensBits == {FCF_SENS_IMU1_OK, FCF_SENS_BMP1_OK, FCF_SENS_IMU2_OK}
DwellSetBits ==
  SensBits \cup {FCF_BARO_AGREE, FCF_MACH_OK, FCF_TILT_LATCH, FCF_LIFTOFF_DET,
                 FCF_BURNOUT_DET}

\* C38 as claimed: no dwell-gated decision is taken on a single sample. A
\* condition that held on the tick before has left its accumulator above 0
\* (every tick adds dt_ms >= 1), so each decision taken by a tick finds its
\* accumulator already above 0.
C38_Claim ==
  [][ /\ \A b \in DwellSetBits : Sets(b) => SetAcc(s_ctx, statics, b) > 0
      /\ \A b \in SensBits : Clears(b) => ClearAcc(s_ctx, b) > 0 ]_vars

\* ---------------------------------------------------------------------------
\* The servo controller while the FC goes through WINDOW to DEPLOYED: the
\* same tasks as in SpecServo, the FC fed with a coast whose predicted apogee
\* is high enough to deploy.
MaxNowDeploy == 60200
DeployFcSamples == {Boost, CoastHigh}

DeployTelemAgg == TelemAggAt(MaxSeq, MaxNowDeploy)

DeployFcTick ==
  /\ \E e \in DeployFcSamples : FcTickAt(ServoDelta, e, MaxNowDeploy)
  /\ UNCHANGED aux

DeployFusionTop == FusionTopAt(ServoDelta, MaxNowDeploy) /\ UNCHANGED aux

NextDeploy ==
  DeployTelemAgg \/ ServoTick \/ DeployFcTick \/ DeployFusionTop \/ ServoFusionBody

SpecDeploy == Init /\ [][NextDeploy]_vars

\* C36 as claimed: every servo tick that leaves the servo open acted on a
\* record with airbrake_cmd_deg > 0, that is, with FC state DEPLOYED.
C36_Claim ==
  [][ (ServoTicked /\ s_open')
        => (s_latest.airbrake_cmd_deg > 0 /\ s_latest.fc_state = FC_DEPLOYED) ]_vars

\* C36 as the code has it: the servo controller never reads airbrake_cmd_deg.
\* Every servo tick that leaves the servo open acted on a record with FC
\* state WINDOW, whose airbrake_cmd_deg is 0; every record with
\* airbrake_cmd_deg > 0 has state DEPLOYED, and a servo tick that acts on
\* such a record leaves the servo closed.
C36_OpenOnlyInWindow ==
  /\ [][ (ServoTicked /\ s_open')
           => (s_latest.fc_state = FC_WINDOW /\ s_latest.airbrake_cmd_deg = 0) ]_vars
  /\ [](s_latest.airbrake_cmd_deg > 0 <=> s_latest.fc_state = FC_DEPLOYED)
  /\ [][ (ServoTicked /\ s_latest.airbrake_cmd_deg > 0) => ~s_open' ]_vars

\* the servo, opened on a WINDOW record, has been closed by the tick that
\* read the first record that commands deployment
W_C36 ==
  /\ s_latest.fc_state = FC_DEPLOYED /\ s_latest.airbrake_cmd_deg > 0
  /\ last_stamp = s_latest.timestamp_ms /\ ~sv.skipped /\ sv.wrote
  /\ ~s_open /\ s_cmd_us = SERVO_MIN_US

\* C40: every FusedAlt that fusionGetAlt can copy out of s_fused_alt (before
\* the first fusion tick, during warm-up, and between the reset block and the
\* publication of the same tick included) has agl_bmp1_m, agl_imu1_m and
\* agl_fused_m NaN whenever its agl_ready is false
C40_Claim ==
  ~s_fused_alt.agl_ready =>
     /\ isnan(s_fused_alt.agl_bmp1_m)
     /\ isnan(s_fused_alt.agl_imu1_m)
     /\ isnan(s_fused_alt.agl_fused_m)

\* ---------------------------------------------------------------------------
\* The mutexes and the tasks that take them.  Each task is the sequence of its
\* operations on mutexes, buses and the log, in the order of its code; every
\* interleaving of the tasks is a behaviour.
SetupMutex == "setup"
BusMutexes == {"i2c", "spi"}
SnapMutexes == {"bmp1Data", "imu1Data", "imu2Data", "alt", "fc", "telem"}
LkTasks == {"bmp1", "imu1", "imu2", "telem", "sdlog", "loopTask"}

\* rtos::mutex_take(h, portMAX_DELAY) / xSemaphoreTake
Take(m) == [k |-> "take", m |-> m, to |-> 0]
\* rtos::mutex_give(h) / xSemaphoreGive
Give(m) == [k |-> "give", m |-> m, to |-> 0]
\* a bus transaction begins / has ended
Begin(b) == [k |-> "begin", m |-> b, to |-> 0]
End(b) == [k |-> "end", m |-> b, to |-> 0]
\* LOGLN / LOGF: a print on Serial under g_log_mutex
Log == [k |-> "log", m |-> "", to |-> 0]
\* a struct copy into or out of a snapshot
Copy == [k |-> "copy", m |-> "", to |-> 0]
\* the test of the device's presence: falls through when it is found, goes to
\* the operation at index to when it is not
Probe(to) == [k |-> "probe", m |-> "", to |-> to]
\* vTaskDelete(nullptr)
Delete == [k |-> "delete", m |-> "", to |-> 0]
\* the end of the for (;;) body, after vTaskDelayUntil
Goto(to) == [k |-> "goto", m |-> "", to |-> to]
\* setup() has returned
Done == [k |-> "done", m |-> "", to |-> 0]

\* WITH_MUTEX(m) { one bus transaction }
Txn(m) == <<Take(m), Begin(m), End(m), Give(m)>>
\* a getter or a publication: the struct is copied under its mutex
Snap(m) == <<Take(m), Copy, Give(m)>>

\* variant: the snapshot is stored inside the SPI critical section
task_sensor_bmp1_mut ==
  <<Take(SetupMutex)>> \o Txn("spi") \o <<Probe(14)>>
    \o Txn("spi") \o <<Log, Give(SetupMutex)>>
    \o <<Goto(16), Log, Delete>>
    \o <<Take("spi"), Begin("spi"), End("spi"), Take("bmp1Data"), Copy,
         Give("bmp1Data"), Give("spi"), Goto(16)>>

\* task_sensor_bmp1: set-up under g_setup_mutex (begin_SPI, presence test,
\* configuration, log), then the loop: performReading under g_spi_mutex, the
\* snapshot under s_bmp1Data_mutex
task_sensor_bmp1 ==
  <<Take(SetupMutex)>> \o Txn("spi") \o <<Probe(14)>>
    \o Txn("spi") \o <<Log, Give(SetupMutex)>>
    \o <<Goto(16), Log, Delete>>
    \o Txn("spi") \o Snap("bmp1Data") \o <<Goto(16)>>

\* task_sensor_imu1: set-up under g_setup_mutex (probe of FIRMWARE_ID under
\* g_i2c_mutex, presence test, init_USFSMAX with no bus mutex, log), then the
\* loop: the register reads with no bus mutex, the snapshot under
\* s_imu1Data_mutex
task_sensor_imu1 ==
  <<Take(SetupMutex)>> \o Txn("i2c") \o <<Probe(12)>>
    \o <<Begin("i2c"), End("i2c"), Log, Give(SetupMutex)>>
    \o <<Goto(14), Log, Delete>>
    \o <<Begin("i2c"), End("i2c")>> \o Snap("imu1Data") \o <<Goto(14)>>

\* imu2_task: set-up under g_setup_mutex (begin under g_i2c_mutex, presence
\* test, configuration under g_i2c_mutex, log), then the loop: getEvent under
\* g_i2c_mutex, the snapshot under s_imu2Data_mutex
imu2_task ==
  <<Take(SetupMutex)>> \o Txn("i2c") \o <<Probe(14)>>
    \o Txn("i2c") \o <<Log, Give(SetupMutex)>>
    \o <<Goto(16), Log, Delete>>
    \o Txn("i2c") \o Snap("imu2Data") \o <<Goto(16)>>

\* task_telem_agg: telemetry_build calls bmp1Get, imu1Get, imu2Get,
\* fcGetStatus and fusionGetAlt one after the other, then the record is
\* stored under s_telem_mutex
task_telem_agg ==
  Snap("bmp1Data") \o Snap("imu1Data") \o Snap("imu2Data") \o Snap("fc")
    \o Snap("alt") \o Snap("telem") \o <<Goto(1)>>

\* task_sd_writer with the card present: the records are written and flushed
\* under g_spi_mutex
task_sd_writer == Txn("spi") \o <<Goto(1)>>

\* setup() from servoStartTask on: servo_boot_sweep under g_setup_mutex, then
\* the servo task, ledStartTask and monitorStartTask
setup_tail == <<Take(SetupMutex), Log, Give(SetupMutex), Done>>

Prog(t) ==
  CASE t = "bmp1" -> task_sensor_bmp1
    [] t = "imu1" -> task_sensor_imu1
    [] t = "imu2" -> imu2_task
    [] t = "telem" -> task_telem_agg
    [] t = "sdlog" -> task_sd_writer
    [] t = "loopTask" -> setup_tail

\* the next operation of the task t
NextOp(t) == Prog(t)[lk.pc[t]]

\* the mutexes the task t holds
Held(t) == {m \in DOMAIN lk.own : lk.own[m] = t}

\* the task t waits for a mutex that another task holds
Waiting(t) == NextOp(t).k = "take" /\ lk.own[NextOp(t).m] # "none"

\* the task t has a transaction in progress on the bus b
InTxn(t, b) == NextOp(t).k = "end" /\ NextOp(t).m = b

\* one operation of the task t
LkStep(t) ==
  LET o == NextOp(t)
      i == lk.pc[t]
  IN  CASE o.k = "take" ->
             /\ lk.own[o.m] = "none"
             /\ lk' = [own |-> [lk.own EXCEPT ![o.m] = t],
                       pc |-> [lk.pc EXCEPT ![t] = i + 1]]
        [] o.k = "give" ->
             lk' = [own |-> [lk.own EXCEPT ![o.m] = "none"],
                    pc |-> [lk.pc EXCEPT ![t] = i + 1]]
        [] o.k = "probe" ->
             \E n \in {i + 1, o.to} : lk' = [lk EXCEPT !.pc[t] = n]
        [] o.k = "goto" -> lk' = [lk EXCEPT !.pc[t] = o.to]
        [] o.k \in {"delete", "done"} -> FALSE
        [] OTHER -> lk' = [lk EXCEPT !.pc[t] = i + 1]

LkOthers ==
  UNCHANGED <<fcvars, fusvars, mon, runs, srvvars, s_latest, seq, tqvars,
              bmp1_latest, imu1_latest, misses, crcrec>>

Bmp1Op == LkStep("bmp1") /\ LkOthers
Imu1Op == LkStep("imu1") /\ LkOthers
Imu2Op == LkStep("imu2") /\ LkOthers
TelemOp == LkStep("telem") /\ LkOthers
SdOp == LkStep("sdlog") /\ LkOthers
SetupOp == LkStep("loopTask") /\ LkOthers

NextLocks == Bmp1Op \/ Imu1Op \/ Imu2Op \/ TelemOp \/ SdOp \/ SetupOp

SpecLocks == Init /\ [][NextLocks]_vars

\* the task t holds a snapshot mutex
HoldsSnap(t) == Held(t) \cap SnapMutexes # {}

\* the task t can take its next operation
CanStep(t) == ~Waiting(t) /\ NextOp(t).k \notin {"delete", "done"}

C33_Claim ==
  /\ \A t \in LkTasks : InTxn(t, "i2c") => lk.own["i2c"] = t
  /\ ~(InTxn("imu1", "i2c") /\ InTxn("imu2", "i2c"))

\* C35: a task that has deleted itself does not hold g_setup_mutex, and
\* whoever waits for g_setup_mutex waits for a task that can run on
C35_Claim ==
  /\ \A t \in LkTasks : NextOp(t).k = "delete" => lk.own[SetupMutex] # t
  /\ \A t \in LkTasks :
       (Waiting(t) /\ NextOp(t).m = SetupMutex) => CanStep(lk.own[SetupMutex])

\* ---------------------------------------------------------------------------
\* The CRC of the record.  A uint32_t is kept as its two 16-bit halves, hi and
\* lo, so that every operation is modulo 2^32 by construction.
Zero32 == [hi |-> 0, lo |-> 0]
Ones32 == [hi |-> 65535, lo |-> 65535]

\* the word whose hexadecimal digits are h[1] .. h[8], the most significant
\* first
Hex32(h) ==
  [hi |-> ((h[1] * 16 + h[2]) * 16 + h[3]) * 16 + h[4],
   lo |-> ((h[5] * 16 + h[6]) * 16 + h[7]) * 16 + h[8]]

\* 0xEDB88320u
CRC_POLY == Hex32(<<14, 13, 11, 8, 8, 3, 2, 0>>)

\* a ^ b and a & b on the low n bits
RECURSIVE XorN(_, _, _)
XorN(a, b, n) ==
  IF n = 0 THEN 0 ELSE ((a + b) % 2) + 2 * XorN(a \div 2, b \div 2, n - 1)
RECURSIVE AndN(_, _, _)
AndN(a, b, n) ==
  IF n = 0 THEN 0 ELSE ((a % 2) * (b % 2)) + 2 * AndN(a \div 2, b \div 2, n - 1)

\* a ^ b
Xor32(a, b) == [hi |-> XorN(a.hi, b.hi, 16), lo |-> XorN(a.lo, b.lo, 16)]
\* a & b
And32(a, b) == [hi |-> AndN(a.hi, b.hi, 16), lo |-> AndN(a.lo, b.lo, 16)]
\* a >> 1
Shr1(a) == [hi |-> a.hi \div 2, lo |-> (a.lo \div 2) + (a.hi % 2) * 32768]
\* the uint8_t byte widened to uint32_t
Byte32(b) == [hi |-> 0, lo |-> b]
\* -(crc & 1u)
Mask32(crc) == IF crc.lo % 2 = 1 THEN Ones32 ELSE Zero32

\* variant: the register is not shifted when the low bit is clear
crc_bit_mut(crc) ==
  IF crc.lo % 2 = 1 THEN Xor32(Shr1(crc), CRC_POLY) ELSE crc

\* one pass of the inner loop: crc = (crc >> 1) ^ (0xEDB88320u & mask)
crc_bit(crc) == Xor32(Shr1(crc), And32(CRC_POLY, Mask32(crc)))

\* the inner loop, n passes (the comparison c = c has the register of one
\* pass evaluated before the next pass is entered)
RECURSIVE crc_bits(_, _)
crc_bits(crc, n) ==
  IF n = 0 THEN crc
  ELSE LET c == crc_bit(crc)
       IN  IF c = c THEN crc_bits(c, n - 1) ELSE c

\* the outer loop over data[i .. len]
RECURSIVE crc_bytes(_, _, _)
crc_bytes(crc, data, i) ==
  IF i > Len(data) THEN crc
  ELSE LET c == crc_bits(Xor32(crc, Byte32(data[i])), 8)
       IN  IF c = c THEN crc_bytes(c, data, i + 1) ELSE c

\* crc32_update(crc, data, len)
crc32_update(crc, data) == Xor32(crc_bytes(Xor32(crc, Ones32), data, 1), Ones32)

\* the bytes the records are made of, and their lengths
MaxCrcLen == 2
CrcBytes == {0, 1, 128, 255}
\* the ASCII digits "123456789" and the letter "a", whose IEEE CRC-32 values
\* are the published check words 0xCBF43926 and 0xE8B7BE43
Check9 == <<49, 50, 51, 52, 53, 54, 55, 56, 57>>
CheckA == <<97>>
RECURSIVE SeqsUpTo(_, _)
SeqsUpTo(S, n) ==
  IF n = 0 THEN {<<>>}
  ELSE LET T == SeqsUpTo(S, n - 1)
       IN  T \cup {Append(t, b) : t \in {u \in T : Len(u) = n - 1}, b \in S}
CrcData == SeqsUpTo(CrcBytes, MaxCrcLen) \cup {Check9, CheckA}

CrcOthers ==
  UNCHANGED <<fcvars, fusvars, mon, runs, srvvars, s_latest, seq, tqvars,
              bmp1_latest, imu1_latest, misses, lk>>

\* the last statement of telemetry_build on a record whose preceding bytes are
\* d, in a build with LOG_INCLUDE_CRC = inc (a build does not depend on the
\* record before it, so that building again after a changed byte reaches no
\* further record)
CrcBuild ==
  /\ ~crcrec.flipped
  /\ \E d \in CrcData, inc \in BOOLEAN :
       crcrec' = [data |-> d,
                  crc32 |-> IF inc THEN crc32_update(Zero32, d) ELSE Zero32,
                  include |-> inc, flipped |-> FALSE]
  /\ CrcOthers

\* one byte of the stored record is changed to another value
CrcFlip ==
  /\ crcrec.include /\ ~crcrec.flipped
  /\ \E i \in 1..Len(crcrec.data), b \in 0..255 :
       /\ b # crcrec.data[i]
       /\ crcrec' = [crcrec EXCEPT !.data[i] = b, !.flipped = TRUE]
  /\ CrcOthers

NextCrc == CrcBuild \/ CrcFlip

SpecCrc == Init /\ [][NextCrc]_vars

\* C32: with CRC enabled the crc32 field of a record as built is the IEEE
\* CRC-32 of the bytes before it (checked on the published check words and on
\* the empty input) and after any single byte of them has been changed the
\* recomputed CRC differs from the stored one; with CRC disabled the field
\* is 0
C32_CrcField ==
  /\ (crcrec.include /\ ~crcrec.flipped) =>
        /\ crcrec.data = Check9 => crcrec.crc32 = Hex32(<<12, 11, 15, 4, 3, 9, 2, 6>>)
        /\ crcrec.data = CheckA => crcrec.crc32 = Hex32(<<14, 8, 11, 7, 11, 14, 4, 3>>)
        /\ crcrec.data = <<>> => crcrec.crc32 = Zero32
  /\ (crcrec.include /\ crcrec.flipped) =>
        crc32_update(Zero32, crcrec.data) # crcrec.crc32
  /\ ~crcrec.include => crcrec.crc32 = Zero32

\* the record of the nine digits, built with CRC, with one byte changed
W_C32 ==
  /\ crcrec.include /\ crcrec.flipped
  /\ Len(crcrec.data) = 9 /\ crcrec.data # Check9
  /\ crcrec.crc32 = Hex32(<<12, 11, 15, 4, 3, 9, 2, 6>>)

====
